---- MODULE Spec2Model ----
(***************************************************************************)
(* Model of the async Microsoft Graph drive scanner                        *)
(* (src/SharepointAnalysis/graph_drive_scanner.py): the GraphClient token  *)
(* cache and request/retry loop, the breadth-first traversal and the       *)
(* bounded-concurrency detail phase (per-item and $batch).                 *)
(*                                                                         *)
(* Every coroutine is a task; a task's step runs from one suspension point *)
(* (an await that yields to the event loop) to the next, as asyncio does.  *)
(* Time is counted in ticks of 1/2^(max_retries+1) second, so that the     *)
(* backoff 1.5^(attempt+1) is a whole number of ticks. The program reads   *)
(* the clock only to add a duration to it or to compare it with a stored   *)
(* instant, so every stored instant (token_expiry, the end of a sleep) is  *)
(* kept as the time left until it, counted from the current instant; an    *)
(* instant that has passed is kept as 0.                                   *)
(***************************************************************************)
EXTENDS Integers, Sequences, FiniteSets, TLC

\* ------------------------------------------------------------- bounds
\* Number of leaves handed to the detail phase.
MaxFiles == 2
\* GraphClient.max_retries (the --max-retry argument; the program's default is 6).
max_retries == 2
\* Number of adverse events in one run of the detail phase: failing answers
\* (non-2xx, transport error), refused or short-lived token grants, and the
\* credential running out while the run lasts.
MaxFaults == 2
\* Number of adverse events in one traversal (the same events, and an answer
\* without 'value'): enough for a request to use up its retries.
MaxCrawlFaults == 3
\* Number of folders a traversal collects before the model stops following it
\* (more than any tree-shaped hierarchy of the model holds).
MaxFolders == 3
\* Longest leaf list, and largest batch_size, the grouping is computed for.
MaxBatchLen == 5
\* FileImportDB: the rows of one batch and the calls of insert_batch of a run.
MaxRows == 2
MaxCalls == 3

\* ------------------------------------------------------------- program constants
\* ensure_token refreshes a credential that expires within 60 seconds.
margin_seconds == 60
\* backoff_base = 1.5, as the fraction backoff_num / backoff_den.
backoff_num == 3
backoff_den == 2
\* resp.get("expires_in", 3600)
default_expires_in == 3600

RECURSIVE Pow(_, _)
Pow(b, e) == IF e = 0 THEN 1 ELSE b * Pow(b, e - 1)

TicksPerSec == Pow(backoff_den, max_retries + 1)
Ticks(seconds) == seconds * TicksPerSec

\* A variant whose delay grows linearly: backoff_base * (attempt + 1) seconds.
BackoffLinear(attempt) ==
    backoff_num * (attempt + 1) * Pow(backoff_den, max_retries)

\* math.pow(backoff_base, attempt + 1) seconds, in ticks.
Backoff(attempt) ==
    Pow(backoff_num, attempt + 1) * Pow(backoff_den, max_retries - attempt)

\* ------------------------------------------------------------- inputs
\* expires_in values the token endpoint answers (seconds).
ExpiresInValues == {margin_seconds, default_expires_in}
\* Retry-After header of a 429/5xx answer: absent, not a number (an HTTP date),
\* or a number of seconds.
NoRetryAfter == -1
BadRetryAfter == -2
RetryAfterValues == {NoRetryAfter, BadRetryAfter, 2}
\* Statuses the API answers; TransportError stands for aiohttp.ClientError.
TransportError == 0
ThrottleStatuses == {429, 503}
Statuses == {TransportError, 200, 401, 404} \cup ThrottleStatuses

NoTask == -1
Main == 0
NoToken == 0
None == "None"

VARIABLES
    args,        \* the run's configuration (argparse namespace)
    files,       \* the leaves handed to the detail phase
    client,      \* GraphClient: token, token_expiry, lock (holder and waiters)
    task,        \* per task: position, request state, item being built
    sem,         \* value of the detail phase's asyncio.Semaphore
    results,     \* the detail phase's output list
    LIVE_QUEUE,  \* the progress queue (None when no consumer is attached)
    phase,       \* "crawl", "crawled", "detail", "returned", "stopping",
                 \* "complete", "failed"
    monitor_task,\* live_display_loop: position, events taken, its counters
    crawl,       \* collect_folders_and_files: folders, files, idx, paging state
    hist,        \* history: counters the properties are stated over
    conn         \* FileImportDB's SQLite database: the rows of table files

vars == <<args, files, client, task, sem, results, LIVE_QUEUE, phase, monitor_task,
          crawl, hist, conn>>

\* The mutable part of the state as one record, so that the statements a task
\* runs between two suspension points compose as functions of it.
World == [client |-> client, task |-> task, sem |-> sem, results |-> results,
          LIVE_QUEUE |-> LIVE_QUEUE, phase |-> phase, crawl |-> crawl, hist |-> hist]

\* The run can still meet an adverse event.
FaultsLeft ==
    hist.faults < (IF phase = "crawl" THEN MaxCrawlFaults ELSE MaxFaults)

\* The step's outcome w becomes the next state (w is evaluated once).
Becomes(w) ==
    \E v \in {w} :
        /\ client' = v.client
        /\ task' = v.task
        /\ sem' = v.sem
        /\ results' = v.results
        /\ LIVE_QUEUE' = v.LIVE_QUEUE
        /\ phase' = v.phase
        /\ crawl' = v.crawl
        /\ hist' = v.hist

Tasks == DOMAIN task

\* Table files as init_db creates it: no rows.
NoTable == <<>>
\* No answer received yet (the `got` field of a worker of the simple scanner).
NoStatus == -1
NoError == [type |-> None, what |-> None, status |-> 0, text |-> None]
NoDetail == [id |-> 0, quickXorHash |-> None, sensitivityLabelId |-> None,
             sensitivityLabelName |-> None]
\* A task's local state before its coroutine has run.
NewTask == [pc |-> "start", req |-> None, attempt |-> 0, carried |-> NoToken,
            wakeAt |-> 0, pos |-> 0, fallback |-> FALSE, result |-> NoDetail,
            sends |-> 0, answers |-> 0, dueAt |-> 0, lastRA |-> NoRetryAfter,
            mark401 |-> -1, stale401 |-> NoToken, behind |-> FALSE,
            n401 |-> 0, nThrottle |-> 0, nTransport |-> 0, lastBackoff |-> 0,
            hurt |-> FALSE, subs |-> <<>>, asked |-> {}, got |-> NoStatus]

\* The body of an answer: a facet record of one item ("facet", or "empty" when
\* the requested facet is absent), a listing page with its continuation cursor,
\* an answer without a 'value' list, or a grouped answer (id -> sub-response).
NoLink == -1
NoBody == [kind |-> None, value |-> <<>>, nextLink |-> NoLink, responses |-> <<>>]

\* live_display_loop's task: none when progress is off, else running with its
\* counters at 0; `taken` counts the events it has got from the queue.
NoMonitor == [pc |-> "none", taken |-> 0, folders |-> 0, files |-> 0, details |-> 0]
NewMonitor == [NoMonitor EXCEPT !.pc = "run"]

\* ------------------------------------------------------------- progress events
\* A variant that queues the event whether or not a queue is attached.
put_always(q, ev) == [q EXCEPT !.events = Append(@, ev)]

\* monitor_set_initial, monitor_add_folders, monitor_add_files, monitor_add_details:
\* q.put_nowait(event) on the attached queue, nothing when LIVE_QUEUE is None
\* (attached = FALSE).
put_nowait(q, ev) == IF q.attached THEN [q EXCEPT !.events = Append(@, ev)] ELSE q

monitor_add_details(w, n) ==
    [w EXCEPT !.LIVE_QUEUE = put_nowait(@, [type |-> "add_details", n |-> n, m |-> 0])]

monitor_add_folders(w, n) ==
    [w EXCEPT !.LIVE_QUEUE = put_nowait(@, [type |-> "add_folders", n |-> n, m |-> 0])]

monitor_add_files(w, n) ==
    [w EXCEPT !.LIVE_QUEUE = put_nowait(@, [type |-> "add_files", n |-> n, m |-> 0])]

\* A variant of monitor_set_initial that conveys the folders only.
monitor_set_initial_folders(w, nfolders, nfiles) ==
    [w EXCEPT !.LIVE_QUEUE =
        put_nowait(@, [type |-> "set_initial", n |-> nfolders, m |-> 0])]

monitor_set_initial(w, nfolders, nfiles) ==
    [w EXCEPT !.LIVE_QUEUE =
        put_nowait(@, [type |-> "set_initial", n |-> nfolders, m |-> nfiles])]

\* ------------------------------------------------------------- GraphClient
\* GraphClient.__init__: no token, expiry at the epoch, lock free.
NewClient == [token |-> NoToken, token_expiry |-> 0, lock |-> NoTask, waiters |-> <<>>]

\* A variant that does not refresh with exactly 60 seconds remaining.
NeedsRefreshStrict(c) ==
    c.token = NoToken \/ Ticks(margin_seconds) > c.token_expiry

\* The refresh condition of ensure_token:
\* token is None or now + 60 s >= token_expiry.
NeedsRefresh(c) ==
    c.token = NoToken \/ Ticks(margin_seconds) >= c.token_expiry

\* A variant of release that wakes no waiter.
LockReleaseWakesNobody(c) == [c EXCEPT !.lock = NoTask]

\* asyncio.Lock.release: the lock passes to the first waiter, if any.
LockRelease(c) ==
    IF c.waiters = <<>>
    THEN [c EXCEPT !.lock = NoTask]
    ELSE [c EXCEPT !.lock = Head(c.waiters), !.waiters = Tail(c.waiters)]

\* ensure_token has returned: request() builds the Authorization header from
\* self.token and sends; the task then waits for the answer.
Send(w, t) ==
    [w EXCEPT !.task[t].pc = "inflight",
              !.task[t].carried = w.client.token,
              !.task[t].sends = @ + 1]

\* ensure_token with the lock held by t: start a token request when the
\* credential is missing or about to expire, else release the lock and return.
EnsureLocked(w, t) ==
    IF NeedsRefresh(w.client)
    THEN [w EXCEPT !.task[t].pc = "acquire",
                   !.hist.tokenReqs = @ + 1]
    ELSE Send([w EXCEPT !.client = LockRelease(@)], t)

\* A variant that sends without waiting when the lock is taken.
BeginAttemptNoWait(w, t) ==
    IF w.client.lock = NoTask
    THEN EnsureLocked([w EXCEPT !.client.lock = t], t)
    ELSE Send(w, t)

\* The top of request()'s loop: await self.ensure_token(). asyncio.Lock.acquire
\* takes a free lock without yielding, else queues the task.
BeginAttempt(w, t) ==
    IF w.client.lock = NoTask
    THEN EnsureLocked([w EXCEPT !.client.lock = t], t)
    ELSE [w EXCEPT !.client.waiters = Append(@, t),
                   !.task[t].pc = "ensure_wait"]

\* A call of client.request(...): attempt = 0, then the loop.
StartRequest(w, t, kind) ==
    BeginAttempt([w EXCEPT !.task[t].req = kind,
                           !.task[t].attempt = 0,
                           !.task[t].sends = 0,
                           !.task[t].answers = 0,
                           !.task[t].n401 = 0,
                           !.task[t].nThrottle = 0,
                           !.task[t].nTransport = 0,
                           !.task[t].lastBackoff = 0], t)

\* A variant of the 401 branch that leaves the cached credential in place.
InvalidateKeepsToken(w, t) ==
    BeginAttempt([w EXCEPT !.client = LockRelease(@),
                           !.task[t].attempt = @ + 1], t)

\* The 401 branch with the lock held by t: drop the credential, release the
\* lock, attempt += 1, continue.
Invalidate(w, t) ==
    BeginAttempt([w EXCEPT !.client = LockRelease([@ EXCEPT !.token = NoToken,
                                                            !.token_expiry = 0]),
                           !.task[t].attempt = @ + 1], t)

\* ------------------------------------------------------------- detail phase
Min(a, b) == IF a <= b THEN a ELSE b

\* A variant whose groups run one item into the next group.
BatchOverlapping(fs, size, k) ==
    SubSeq(fs, (k - 1) * size + 1, Min(k * size + 1, Len(fs)))

\* batches = [files[i:i+batch_size] for i in range(0, total, batch_size)]
NumBatches(fs, size) == (Len(fs) + size - 1) \div size
Batch(fs, size, k) == SubSeq(fs, (k - 1) * size + 1, Min(k * size, Len(fs)))

\* The items task t works on: one group in batch mode, one leaf otherwise.
TaskItems(t) ==
    IF args.use_batch THEN Batch(files, args.batch_size, t) ELSE <<files[t]>>

\* A variant that keeps only enriched Details (placeholders are dropped).
AppendEnriched(rs, r) ==
    IF r.quickXorHash = None /\ r.sensitivityLabelId = None THEN rs ELSE Append(rs, r)

\* results.append(r)
AppendResult(rs, r) == Append(rs, r)

\* The end of one fetch_file_detail call of task t. Per-item mode: the gate is
\* released, _wrap appends the Detail and posts add_details. Fallback of a
\* failed group: append, post, then the next member or the end of the group.
FinishItem(w, t) ==
    LET tk == w.task[t]
        w1 == monitor_add_details(
                  [w EXCEPT !.results = AppendResult(@, tk.result)], 1)
    IN  IF tk.fallback /\ tk.pos < Len(TaskItems(t))
        THEN [w1 EXCEPT !.task[t].pos = tk.pos + 1, !.task[t].pc = "next"]
        ELSE [w1 EXCEPT !.task[t].pc = "done",
                        !.task[t].req = None,
                        !.task[t].result = NoDetail,
                        !.sem = @ + 1]

\* A variant that requests the item's hash whatever the listing carries.
StartFetchAlwaysAsks(w, t, it, no_get) ==
    LET r == [NoDetail EXCEPT !.id = it.id, !.quickXorHash = it.file_hash]
        kind == IF ~no_get THEN "hash" ELSE "listItem1"
    IN  StartRequest([w EXCEPT !.task[t].result = r], t, kind)

\* fetch_file_detail up to its first request: the Detail from the listing, the
\* listing's hash when it has one, then the hash request or the first listItem.
StartFetch(w, t, it, no_get) ==
    LET r == [NoDetail EXCEPT !.id = it.id, !.quickXorHash = it.file_hash]
        kind == IF r.quickXorHash = None /\ ~no_get THEN "hash" ELSE "listItem1"
    IN  StartRequest([w EXCEPT !.task[t].result = r], t, kind)

\* A variant in which the fallback of a failed group ends after its first member.
FinishGroupAfterFirst(w, t) ==
    [monitor_add_details(
         [w EXCEPT !.results = AppendResult(@, w.task[t].result)], 1) EXCEPT
        !.task[t].pc = "done",
        !.task[t].req = None,
        !.task[t].result = NoDetail,
        !.sem = @ + 1]

\* FinishItem, then the start of the next member's fetch in a fallback.
FinishAndContinue(w, t) ==
    LET w1 == FinishItem(w, t)
    IN  IF w1.task[t].pc = "next"
        THEN StartFetch(w1, t, TaskItems(t)[w1.task[t].pos], FALSE)
        ELSE w1

\* A variant of fetch_file_detail without the try/except around its requests:
\* an exception leaves the fetch and gather_file_details.
AfterFetchRaises(w, t, o) ==
    LET tk == w.task[t]
        got == o.body.kind = "facet"
    IN  IF ~o.ok
        THEN [w EXCEPT !.phase = "failed", !.task[t].pc = "failed",
                       !.task[t].req = None]
        ELSE CASE tk.req = "hash" ->
                    StartRequest(
                        [w EXCEPT !.task[t].result.quickXorHash =
                                      IF got THEN "item_hash" ELSE @],
                        t, "listItem1")
               [] tk.req \in {"listItem1", "listItem2"} ->
                    IF got
                    THEN FinishAndContinue(
                             [w EXCEPT !.task[t].result.sensitivityLabelId = "fields_id",
                                       !.task[t].result.sensitivityLabelName = "fields_name"],
                             t)
                    ELSE IF tk.req = "listItem1" /\ args.site_id
                         THEN StartRequest(w, t, "listItem2")
                         ELSE StartRequest(w, t, "label")
               [] OTHER ->
                    FinishAndContinue(
                        [w EXCEPT !.task[t].result.sensitivityLabelId =
                                      IF got THEN "label_id" ELSE @,
                                  !.task[t].result.sensitivityLabelName =
                                      IF got THEN "label_name" ELSE @],
                        t)

\* fetch_file_detail after one of its requests returned (o.ok) or raised:
\* every exception is caught and the next step follows.
AfterFetch(w, t, o) ==
    LET tk == w.task[t]
        got == o.ok /\ o.body.kind = "facet"
    IN  CASE tk.req = "hash" ->
               StartRequest(
                   [w EXCEPT !.task[t].result.quickXorHash =
                                 IF got THEN "item_hash" ELSE @],
                   t, "listItem1")
          [] tk.req \in {"listItem1", "listItem2"} ->
               IF got
               THEN FinishAndContinue(
                        [w EXCEPT !.task[t].result.sensitivityLabelId = "fields_id",
                                  !.task[t].result.sensitivityLabelName = "fields_name"],
                        t)
               ELSE IF tk.req = "listItem1" /\ args.site_id
                    THEN StartRequest(w, t, "listItem2")
                    ELSE StartRequest(w, t, "label")
          [] OTHER ->
               FinishAndContinue(
                   [w EXCEPT !.task[t].result.sensitivityLabelId =
                                 IF got THEN "label_id" ELSE @,
                             !.task[t].result.sensitivityLabelName =
                                 IF got THEN "label_name" ELSE @],
                   t)

\* A variant that reads the body of a sub-response whatever its status.
BatchEntryAnyStatus(it, sub) ==
    IF sub # "missing"
    THEN [NoDetail EXCEPT !.id = it.id, !.quickXorHash = "batch_hash",
                          !.sensitivityLabelId = "label_id",
                          !.sensitivityLabelName = "label_name"]
    ELSE [NoDetail EXCEPT !.id = it.id]

\* The Detail _process_batch builds for item `it` from its sub-response `sub`:
\* "missing" (no entry in resp_map), "ok" (a 2xx status) or "err".
BatchEntry(it, sub) ==
    IF sub = "ok"
    THEN [NoDetail EXCEPT !.id = it.id, !.quickXorHash = "batch_hash",
                          !.sensitivityLabelId = "label_id",
                          !.sensitivityLabelName = "label_name"]
    ELSE [NoDetail EXCEPT !.id = it.id]

\* A variant that reads the group's first sub-response for every member.
RECURSIVE DemuxByFirst(_, _, _, _)
DemuxByFirst(w, items, body, i) ==
    IF i > Len(items) THEN w
    ELSE LET it == items[i]
             sub == body.responses[items[1].id]
             w1 == [w EXCEPT !.results = AppendResult(@, BatchEntry(it, sub))]
         IN  DemuxByFirst(IF sub = "missing" THEN w1 ELSE monitor_add_details(w1, 1),
                          items, body, i + 1)

\* The loop of _process_batch over the group's members, from member i on.
RECURSIVE Demux(_, _, _, _)
Demux(w, items, body, i) ==
    IF i > Len(items) THEN w
    ELSE LET it == items[i]
             sub == body.responses[it.id]
             w1 == [w EXCEPT !.results = AppendResult(@, BatchEntry(it, sub))]
         IN  Demux(IF sub = "missing" THEN w1 ELSE monitor_add_details(w1, 1),
                   items, body, i + 1)

\* _process_batch after the grouped request: on an exception the members are
\* fetched one by one; otherwise the answer is demultiplexed by id.
AfterBatch(w, t, o) ==
    IF ~o.ok
    THEN StartFetch([w EXCEPT !.task[t].fallback = TRUE, !.task[t].pos = 1],
                    t, TaskItems(t)[1], FALSE)
    ELSE [Demux(w, TaskItems(t), o.body, 1) EXCEPT
              !.task[t].pc = "done", !.task[t].req = None, !.sem = @ + 1]

\* ------------------------------------------------------------- traversal
\* item.get("folder") is not None
IsFolder(item) == item.folder # None

FoldersOf(items) == SelectSeq(items, IsFolder)
FilesOf(items) == SelectSeq(items, LAMBDA it : ~IsFolder(it))

\* A variant that returns the lists collected so far when a listing fails.
CrawlFailPartial(w, t, e) ==
    [w EXCEPT !.phase = "crawled",
              !.crawl.returned = TRUE,
              !.task[t].pc = "done",
              !.task[t].req = None]

\* collect_folders_and_files raises: the exception leaves main_async, nothing
\* is returned.
CrawlFail(w, t, e) ==
    [w EXCEPT !.phase = "failed",
              !.crawl.error = e,
              !.task[t].pc = "failed",
              !.task[t].req = None]

\* paged_get's request for the page of container `node` at cursor `offset`.
ListPage(w, t, node, offset, acc) ==
    StartRequest([w EXCEPT !.crawl.listing = node,
                           !.crawl.offset = offset,
                           !.crawl.acc = acc], t, "list")

\* The while loop of collect_folders_and_files: list the next unexpanded
\* folder, or return (folders, files).
CrawlLoop(w, t) ==
    IF w.crawl.idx < Len(w.crawl.folders)
    THEN ListPage(w, t, w.crawl.folders[w.crawl.idx + 1].id, 0, <<>>)
    ELSE [w EXCEPT !.phase = "crawled",
                   !.crawl.returned = TRUE,
                   !.task[t].pc = "done",
                   !.task[t].req = None]

\* A variant that puts the newly listed items in front of the lists.
CollectedNewestFirst(w, t, items) ==
    LET nf == Len(FoldersOf(items))
        nl == Len(FilesOf(items))
        w1 == [w EXCEPT !.crawl.folders = FoldersOf(items) \o @,
                        !.crawl.files = FilesOf(items) \o @]
    IN  IF w.crawl.stage = "root"
        THEN CrawlLoop([monitor_set_initial(w1, nf, nl) EXCEPT
                            !.crawl.stage = "folders"], t)
        ELSE LET w2 == IF nf > 0 THEN monitor_add_folders(w1, nf) ELSE w1
                 w3 == IF nl > 0 THEN monitor_add_files(w2, nl) ELSE w2
             IN  CrawlLoop([w3 EXCEPT !.crawl.idx = @ + 1], t)

\* A variant that announces every listing with set_initial.
CollectedResetsCounts(w, t, items) ==
    LET nf == Len(FoldersOf(items))
        nl == Len(FilesOf(items))
        w1 == [w EXCEPT !.crawl.folders = @ \o FoldersOf(items),
                        !.crawl.files = @ \o FilesOf(items)]
    IN  IF w.crawl.stage = "root"
        THEN CrawlLoop([monitor_set_initial(w1, nf, nl) EXCEPT
                            !.crawl.stage = "folders"], t)
        ELSE CrawlLoop([monitor_set_initial(w1, nf, nl) EXCEPT
                            !.crawl.idx = @ + 1], t)

\* paged_get returned `items` to collect_folders_and_files: the root listing is
\* partitioned and announced with set_initial; a folder's children are
\* appended and announced with add_folders / add_files, and idx advances.
Collected(w, t, items) ==
    LET nf == Len(FoldersOf(items))
        nl == Len(FilesOf(items))
        w1 == [w EXCEPT !.crawl.folders = @ \o FoldersOf(items),
                        !.crawl.files = @ \o FilesOf(items)]
    IN  IF w.crawl.stage = "root"
        THEN CrawlLoop([monitor_set_initial(w1, nf, nl) EXCEPT
                            !.crawl.stage = "folders"], t)
        ELSE LET w2 == IF nf > 0 THEN monitor_add_folders(w1, nf) ELSE w1
                 w3 == IF nl > 0 THEN monitor_add_files(w2, nl) ELSE w2
             IN  CrawlLoop([w3 EXCEPT !.crawl.idx = @ + 1], t)

\* results.extend(None): 'NoneType' object is not iterable.
ExtendNone == [type |-> "TypeError", what |-> "not iterable", status |-> 0, text |-> None]

\* A variant of paged_get that stops after the first page.
AfterListFirstPage(w, t, o) ==
    IF ~o.ok THEN CrawlFail(w, t, o.error)
    ELSE IF o.body.kind = "nullvalue" THEN CrawlFail(w, t, ExtendNone)
    ELSE IF o.body.kind # "page"
         THEN Collected(w, t, w.crawl.acc)
         ELSE Collected(w, t, w.crawl.acc \o o.body.value)

\* paged_get after its request: a page with 'value' is appended and its
\* nextLink followed; a body without a 'value' member ends the listing, and a
\* null 'value' raises in results.extend.
AfterList(w, t, o) ==
    IF ~o.ok THEN CrawlFail(w, t, o.error)
    ELSE IF o.body.kind = "nullvalue" THEN CrawlFail(w, t, ExtendNone)
    ELSE IF o.body.kind # "page"
         THEN Collected(w, t, w.crawl.acc)
         ELSE LET acc == w.crawl.acc \o o.body.value
              IN  IF o.body.nextLink # NoLink
                  THEN ListPage(w, t, w.crawl.listing, o.body.nextLink, acc)
                  ELSE Collected(w, t, acc)

\* ------------------------------------------------------------- simple scanner
\* list_all_items of graph_drive_scanner_simple.py: the same traversal over
\* blocking requests, each sent once (no retry, the token is not refreshed).
\* An item is a folder when its folder facet is truthy.
SimpleIsFolder(item) == item.folder \notin {None, "empty"}

SimpleFoldersOf(items) == SelectSeq(items, SimpleIsFolder)
SimpleFilesOf(items) == SelectSeq(items, LAMBDA it : ~SimpleIsFolder(it))

\* requests.get of paged_get for the page of container `node` at cursor `offset`.
SimpleListPage(w, node, offset, acc) ==
    [w EXCEPT !.crawl.listing = node,
              !.crawl.offset = offset,
              !.crawl.acc = acc,
              !.task[Main].pc = "simple_get",
              !.task[Main].req = "list",
              !.task[Main].sends = @ + 1]

\* The while loop of list_all_items.
SimpleLoop(w) ==
    IF w.crawl.idx < Len(w.crawl.folders)
    THEN SimpleListPage(w, w.crawl.folders[w.crawl.idx + 1].id, 0, <<>>)
    ELSE [w EXCEPT !.phase = "crawled",
                   !.crawl.returned = TRUE,
                   !.task[Main].pc = "done",
                   !.task[Main].req = None]

\* paged_get returned `items` to list_all_items.
SimpleCollected(w, items) ==
    LET w1 == [w EXCEPT !.crawl.folders = @ \o SimpleFoldersOf(items),
                        !.crawl.files = @ \o SimpleFilesOf(items)]
    IN  IF w.crawl.stage = "root"
        THEN SimpleLoop([w1 EXCEPT !.crawl.stage = "folders"])
        ELSE SimpleLoop([w1 EXCEPT !.crawl.idx = @ + 1])

\* paged_get after requests.get returned r: raise_for_status, then the page is
\* appended and its nextLink followed; an answer without 'value' ends the
\* listing. A transport failure leaves requests.get as an exception.
SimpleAfterGet(w, r) ==
    IF r.status = TransportError
    THEN CrawlFail(w, Main, [type |-> "ConnectionError", what |-> "transport",
                             status |-> 0, text |-> None])
    ELSE IF r.status >= 400
    THEN CrawlFail(w, Main, [type |-> "HTTPError", what |-> "raise_for_status",
                             status |-> r.status, text |-> r.text])
    ELSE IF r.body.kind = "nullvalue" THEN CrawlFail(w, Main, ExtendNone)
    ELSE IF r.body.kind # "page"
    THEN SimpleCollected(w, w.crawl.acc)
    ELSE LET acc == w.crawl.acc \o r.body.value
         IN  IF r.body.nextLink # NoLink
             THEN SimpleListPage(w, w.crawl.listing, r.body.nextLink, acc)
             ELSE SimpleCollected(w, acc)

\* ------------------------------------------------------------- request loop
\* The caller's code that follows client.request(), up to its next await.
Complete(w, t, o) ==
    CASE w.task[t].req = "list" -> AfterList(w, t, o)
      [] w.task[t].req = "batch" -> AfterBatch(w, t, o)
      [] OTHER -> AfterFetch(w, t, o)

Raise(w, t, e) == Complete(w, t, [ok |-> FALSE, body |-> NoBody, error |-> e])
Return(w, t, b) == Complete(w, t, [ok |-> TRUE, body |-> b, error |-> NoError])

\* await asyncio.sleep(d): the task resumes no earlier than d ticks from now.
Sleep(w, t, d) ==
    [w EXCEPT !.task[t].pc = "sleep", !.task[t].wakeAt = d]

\* A variant that ignores the Retry-After header.
RetryDelayBackoffOnly(ra, attempt) == Backoff(attempt)

\* The delay after a 429/5xx answer: float(Retry-After) when the header is
\* present and numeric, else the exponential backoff.
RetryDelay(ra, attempt) ==
    IF ra \in {NoRetryAfter, BadRetryAfter} THEN Backoff(attempt) ELSE Ticks(ra)

\* A variant that takes every failing status for a throttle.
IsThrottleOrError(status) == status >= 400

IsThrottle(status) == status = 429 \/ (500 <= status /\ status < 600)

\* A variant without the fail_on_throttle check.
GivesUpWhenExhausted(attempt) == attempt >= max_retries

\* A 429/5xx answer is not retried: fail_on_throttle, or no attempt is left.
GivesUp(attempt) == args.fail_on_throttle \/ attempt >= max_retries

\* A variant of the 401 test that does not look at the attempts made.
Retry401Always(status, attempt) == status = 401

\* resp.status == 401 and attempt < self.max_retries
Retry401(status, attempt) == status = 401 /\ attempt < max_retries

\* The body of request()'s loop once the answer r has arrived.
OnResponse(w, t, r) ==
    LET tk == w.task[t]
    IN  IF r.status = TransportError
        THEN IF tk.attempt >= max_retries
             THEN Raise(w, t, [type |-> "ClientError", what |-> "transport",
                               status |-> 0, text |-> None])
             ELSE Sleep(w, t, Backoff(tk.attempt))
        ELSE IF Retry401(r.status, tk.attempt)
        THEN IF w.client.lock = NoTask
             THEN Invalidate([w EXCEPT !.client.lock = t], t)
             ELSE [w EXCEPT !.client.waiters = Append(@, t),
                            !.task[t].pc = "inval_wait"]
        ELSE IF IsThrottle(r.status)
        THEN IF GivesUp(tk.attempt)
             THEN Raise(w, t, [type |-> "RuntimeError", what |-> "Request failed",
                               status |-> r.status, text |-> r.text])
             ELSE Sleep(w, t, RetryDelay(r.retry_after, tk.attempt))
        ELSE IF r.status >= 400
        THEN Raise(w, t, [type |-> "RuntimeError", what |-> "Request failed",
                          status |-> r.status, text |-> r.text])
        ELSE Return(w, t, r.body)

\* _acquire_token answered 200 inside ensure_token: the credential is stored,
\* the lock released, and request() sends.
TokenGranted(w, t, expires_in) ==
    Send([w EXCEPT !.client = LockRelease(
                       [@ EXCEPT !.token = w.hist.tokenReqs,
                                 !.token_expiry = Ticks(expires_in)])], t)

\* A variant in which the failing caller leaves with the lock still held.
TokenFailedKeepsLock(w, t, status, text) ==
    Raise(w, t,
          [type |-> "RuntimeError", what |-> "Token request failed",
           status |-> status, text |-> text])

\* _acquire_token raised (a non-200 answer): the lock is released and the
\* exception leaves ensure_token and request().
TokenFailed(w, t, status, text) ==
    Raise([w EXCEPT !.client = LockRelease(@)], t,
          [type |-> "RuntimeError", what |-> "Token request failed",
           status |-> status, text |-> text])

\* ------------------------------------------------------------- the server
\* A listing item: a leaf with the hash of its file facet (or none), or a
\* folder with its folder facet.
Leaf(i, h) == [id |-> i, folder |-> None, file_hash |-> h]
Folder(i, facet) == [id |-> i, folder |-> facet, file_hash |-> None]

\* The text of a failing answer.
TextOf(status) ==
    CASE status = 429 -> "too many requests"
      [] status = 503 -> "service unavailable"
      [] status = 401 -> "token expired"
      [] status = 400 -> "invalid client"
      [] OTHER -> "not found"

\* One page of the children of `node` from cursor `offset`, with the
\* continuation link when more children follow.
Page(tree, node, offset, page_size) ==
    LET kids == tree[node]
        last == Min(offset + page_size, Len(kids))
    IN  [NoBody EXCEPT !.kind = "page",
                       !.value = SubSeq(kids, offset + 1, last),
                       !.nextLink = IF last < Len(kids) THEN last ELSE NoLink]

\* What the drive holds for the leaf `id`: odd leaves carry their hash in the
\* listing, the others only in the item's file facet; every third leaf, from
\* the first, has its label in listItem.fields, every third, from the second,
\* only in sensitivityLabel, and the rest have no label.
ListingHash(id) == IF id % 2 = 1 THEN "listing_hash" ELSE None
HasFacet(id, kind) ==
    CASE kind = "hash" -> TRUE
      [] kind \in {"listItem1", "listItem2"} -> id % 3 = 1
      [] OTHER -> id % 3 = 2

\* A 200 answer without a 'value' list: a body that is no object or has no
\* 'value' member, and an object whose 'value' is null.
NoValuePage == [NoBody EXCEPT !.kind = "novalue"]
NullValuePage == [NoBody EXCEPT !.kind = "nullvalue"]

\* The bodies a 200 answer to task t's request may carry.
Bodies(t) ==
    CASE task[t].req = "list" ->
            {Page(crawl.tree, crawl.listing, crawl.offset, args.page_size)}
      [] task[t].req = "batch" ->
            {[NoBody EXCEPT !.kind = "batch", !.responses = rs] :
                rs \in [{TaskItems(t)[i].id : i \in 1..Len(TaskItems(t))}
                           -> {"missing", "ok", "err"}]}
      [] OTHER ->
            {[NoBody EXCEPT !.kind =
                 IF HasFacet(task[t].result.id, task[t].req) THEN "facet" ELSE "empty"]}

\* The answers the API may give to task t's request in flight.
Answers(t) ==
    [status : {200}, retry_after : {NoRetryAfter}, text : {None}, body : Bodies(t)]
    \cup {[status |-> st, retry_after |-> NoRetryAfter, text |-> TextOf(st),
           body |-> NoBody] : st \in {TransportError, 401, 404}}
    \cup {[status |-> st, retry_after |-> ra, text |-> TextOf(st),
           body |-> NoBody] : st \in ThrottleStatuses, ra \in RetryAfterValues}
    \cup (IF task[t].req = "list"
          THEN [status : {200}, retry_after : {NoRetryAfter}, text : {None},
                body : {NoValuePage, NullValuePage}]
          ELSE {})

IsFault(r) == r.status # 200 \/ r.body.kind \in {"novalue", "nullvalue"}

\* ------------------------------------------------------------- history
\* The history fields of task t after one of its steps took w0 to w1: whether
\* it queued in ensure_token behind a token request in flight, the kinds of
\* request it has sent, and the 401-forced token requests logged by the
\* credential whose 401 forced them.
Track(w0, w1, t) ==
    LET queued == w1.task[t].pc = "ensure_wait" /\ w0.task[t].pc # "ensure_wait"
        asked == w1.task[t].pc = "acquire" /\ w0.task[t].pc # "acquire"
        sent == w1.task[t].pc = "inflight" /\ w1.task[t] # w0.task[t]
        dropped == w0.client.token # NoToken /\ w1.client.token = NoToken
        w2 == [w1 EXCEPT
                 !.task[t].behind =
                     IF queued THEN w1.task[w1.client.lock].pc = "acquire"
                     ELSE IF w1.task[t].pc = "ensure_wait" THEN @ ELSE FALSE,
                 !.task[t].stale401 = IF sent THEN NoToken ELSE @,
                 !.task[t].asked = IF sent THEN @ \cup {w1.task[t].req} ELSE @,
                 !.task[t].lastBackoff =
                     IF /\ w1.phase = "crawl"
                        /\ w1.task[t].pc = "sleep" /\ w0.task[t].pc # "sleep"
                        /\ w1.task[t].lastRA \in {NoRetryAfter, BadRetryAfter}
                     THEN w1.task[t].wakeAt ELSE @,
                 !.hist.forced =
                     IF asked /\ w1.task[t].stale401 # NoToken
                     THEN Append(@, w1.task[t].stale401) ELSE @]
    IN  IF dropped
        THEN [w2 EXCEPT !.task = [u \in DOMAIN @ |-> [@[u] EXCEPT !.behind = FALSE]]]
        ELSE w2

\* The history of an answer r to task t: the count of answers of the logical
\* request, its Retry-After header and the time until a numeric one allows
\* the next send, the token requests issued so far and the credential carried
\* when a 401 with attempts remaining arrives, and the text of the last 429/5xx.
\* The Retry-After and 429/5xx fields are kept for the traversal's requests;
\* `hurt` marks a detail task one of whose requests has raised, `subs` holds
\* the sub-responses of the grouped answer a batch task received.
Noted(w, t, r) ==
    LET tk == w.task[t]
        retried == ~args.fail_on_throttle /\ tk.attempt < max_retries
        kept == w.phase = "crawl"
        terminal == \/ r.status >= 400 /\ ~IsThrottle(r.status)
                       /\ ~(r.status = 401 /\ tk.attempt < max_retries)
                    \/ IsThrottle(r.status) /\ ~retried
                    \/ r.status = TransportError /\ tk.attempt >= max_retries
    IN  [w EXCEPT
           !.task[t].answers = @ + 1,
           !.task[t].dueAt =
               IF kept /\ IsThrottle(r.status) /\ r.retry_after >= 0 /\ retried
               THEN Ticks(r.retry_after) ELSE @,
           !.task[t].lastRA = IF kept THEN r.retry_after ELSE @,
           !.task[t].mark401 =
               IF r.status = 401 /\ tk.attempt < max_retries
               THEN w.hist.tokenReqs ELSE -1,
           !.task[t].stale401 =
               IF r.status = 401 /\ tk.attempt < max_retries
               THEN tk.carried ELSE @,
           !.task[t].n401 =
               IF kept /\ r.status = 401 /\ tk.attempt < max_retries THEN @ + 1 ELSE @,
           !.task[t].nThrottle =
               IF kept /\ IsThrottle(r.status) /\ retried THEN @ + 1 ELSE @,
           !.task[t].nTransport =
               IF kept /\ r.status = TransportError /\ tk.attempt < max_retries
               THEN @ + 1 ELSE @,
           !.hist.lastThrottle = IF kept /\ IsThrottle(r.status) THEN r.text ELSE None,
           !.task[t].hurt = @ \/ (w.phase = "detail" /\ terminal),
           !.task[t].subs = IF r.body.kind = "batch" THEN r.body.responses ELSE @,
           !.hist.fatal = IF kept THEN terminal ELSE @,
           !.hist.lastStatus = IF kept THEN r.status ELSE @,
           !.hist.novalue = @ \/ (kept /\ r.body.kind \in {"novalue", "nullvalue"}),
           !.hist.pages = IF kept /\ r.body.kind = "page" THEN @ + 1 ELSE @,
           !.hist.faults = IF IsFault(r) THEN @ + 1 ELSE @]

\* ------------------------------------------------------------- initial states
\* The hierarchies the server holds (node 0 is the drive root): the root with
\* two leaves and a folder holding one leaf, and a chain of two folders, the
\* first with an empty folder facet ("folder": {}), the second without children.
Root == 0
Hierarchies ==
    { [n \in {0, 3} |->
          IF n = 0 THEN <<Leaf(1, ListingHash(1)), Leaf(2, ListingHash(2)),
                          Folder(3, "children")>>
          ELSE <<Leaf(4, ListingHash(4))>>],
      [n \in {0, 1, 3} |->
          IF n = 0 THEN <<Folder(1, "empty"), Leaf(2, ListingHash(2))>>
          ELSE IF n = 1 THEN <<Folder(3, "children"), Leaf(4, ListingHash(4))>>
          ELSE <<>>] }

\* Listings in which a folder is its own descendant: folder 1 lists itself,
\* and folders 1 and 3 list each other.
CyclicHierarchies ==
    { [n \in {0, 1} |->
          IF n = 0 THEN <<Folder(1, "children"), Leaf(2, ListingHash(2))>>
          ELSE <<Folder(1, "children")>>],
      [n \in {0, 1, 3} |->
          IF n = 0 THEN <<Folder(1, "children")>>
          ELSE IF n = 1 THEN <<Folder(3, "children"), Leaf(2, ListingHash(2))>>
          ELSE <<Folder(1, "children")>>] }

\* What collect_folders_and_files returns for the hierarchy `tree` when every
\* listing succeeds: the loop over `folders` from position idx, each folder's
\* children partitioned by IsFolder and appended.
RECURSIVE CollectFrom(_, _, _, _)
CollectFrom(tree, folders, fs, idx) ==
    IF idx >= Len(folders) THEN [folders |-> folders, files |-> fs]
    ELSE LET children == tree[folders[idx + 1].id]
         IN  CollectFrom(tree, folders \o FoldersOf(children),
                         fs \o FilesOf(children), idx + 1)

CollectAll(tree) == CollectFrom(tree, FoldersOf(tree[Root]), FilesOf(tree[Root]), 0)

NoCrawl == [tree |-> <<>>, listing |-> Root, offset |-> 0, acc |-> <<>>,
            folders |-> <<>>, files |-> <<>>, idx |-> 0, stage |-> "root",
            error |-> NoError, returned |-> FALSE]

NoHistory == [tokenReqs |-> 0, faults |-> 0, tokenFailed |-> FALSE, forced |-> <<>>,
              lastStatus |-> 0,
              lastThrottle |-> None, fatal |-> FALSE, novalue |-> FALSE, pages |-> 0]

\* main_async before the traversal: with progress on (not --no-progress) the
\* queue is created and attached and live_display_loop is started; else
\* LIVE_QUEUE stays None and there is no monitor task.
Progress(on) ==
    /\ LIVE_QUEUE = [attached |-> on, events |-> <<>>]
    /\ monitor_task = IF on THEN NewMonitor ELSE NoMonitor

\* The configurations of the detail phase that are run: per-item mode gated
\* to one slot or to two, with and without per-item hash requests, and batch
\* mode (one slot) with groups of one and of two; fail_on_throttle is on in one
\* per-item and one batch configuration.
DetailRuns ==
    {r \in [use_batch : BOOLEAN, batch_size : {1, 2}, concurrency : {1, 2},
            fail_on_throttle : BOOLEAN, no_per_item_get : BOOLEAN,
            site_id : {FALSE}, page_size : {1}] :
        /\ r.use_batch \/ r.batch_size = 1
        /\ r.use_batch => ~r.no_per_item_get /\ r.concurrency = 1
        /\ r.no_per_item_get => r.concurrency = 1 /\ ~r.fail_on_throttle
        /\ r.fail_on_throttle => r.concurrency = 1 /\ r.batch_size = 1}

\* The detail phase of main_async: the traversal has returned `files`, the
\* client holds the credential the traversal last obtained.
DetailBegin ==
    /\ args \in DetailRuns
    /\ files = [i \in 1..MaxFiles |-> Leaf(i, ListingHash(i))]
    /\ \E e \in ExpiresInValues :
           client = [NewClient EXCEPT !.token = 1, !.token_expiry = Ticks(e)]
    /\ task = [t \in 1..(IF args.use_batch
                         THEN NumBatches(files, args.batch_size)
                         ELSE Len(files)) |-> NewTask]
    /\ sem = args.concurrency
    /\ results = <<>>
    /\ conn = NoTable
    /\ phase = "detail"
    /\ crawl = NoCrawl
    /\ hist = [NoHistory EXCEPT !.tokenReqs = 1]

Init == DetailBegin /\ Progress(TRUE)

\* The start of main_async's traversal: a fresh client, nothing collected.
CrawlBegin ==
    /\ args \in [use_batch : {FALSE}, batch_size : {1}, concurrency : {1},
                 fail_on_throttle : BOOLEAN, no_per_item_get : {FALSE},
                 site_id : {FALSE}, page_size : {1, 2}]
    /\ files = <<>>
    /\ client = NewClient
    /\ task = [t \in {Main} |-> NewTask]
    /\ sem = 0
    /\ results = <<>>
    /\ conn = NoTable
    /\ phase = "crawl"
    /\ \E tree \in Hierarchies : crawl = [NoCrawl EXCEPT !.tree = tree]
    /\ hist = NoHistory

CrawlInit == CrawlBegin /\ Progress(TRUE)

\* ------------------------------------------------------------- actions
\* A variant in which a task starts without taking a slot of the shared gate.
TaskStartUngated(t) ==
    /\ phase = "detail"
    /\ task[t].pc = "start"
    /\ \A u \in Tasks : u < t => task[u].pc # "start"
    /\ LET w == [World EXCEPT !.task[t].pos = 1]
       IN  Becomes(Track(World,
                         IF args.use_batch
                         THEN StartRequest(w, t, "batch")
                         ELSE StartFetch(w, t, files[t], args.no_per_item_get),
                         t))
    /\ UNCHANGED <<args, files, conn, monitor_task>>

\* A detail task runs up to its first await: it takes a gate slot, then starts
\* the grouped request (batch mode) or fetch_file_detail (per-item mode).
\* The tasks are created in list order and the gate serves its waiters first
\* come first served, so they pass the gate in list order.
TaskStart(t) ==
    /\ phase = "detail"
    /\ task[t].pc = "start"
    /\ \A u \in Tasks : u < t => task[u].pc # "start"
    /\ sem > 0
    /\ LET w == [World EXCEPT !.sem = @ - 1, !.task[t].pos = 1]
       IN  Becomes(Track(World,
                         IF args.use_batch
                         THEN StartRequest(w, t, "batch")
                         ELSE StartFetch(w, t, files[t], args.no_per_item_get),
                         t))
    /\ UNCHANGED <<args, files, conn, monitor_task>>

\* collect_folders_and_files starts listing the root's children.
CrawlStart ==
    /\ phase = "crawl"
    /\ task[Main].pc = "start"
    /\ Becomes(Track(World, ListPage(World, Main, Root, 0, <<>>), Main))
    /\ UNCHANGED <<args, files, conn, monitor_task>>

\* A task queued in ensure_token gets the lock.
EnsureGranted(t) ==
    /\ task[t].pc = "ensure_wait"
    /\ client.lock = t
    /\ Becomes(Track(World, EnsureLocked(World, t), t))
    /\ UNCHANGED <<args, files, conn, monitor_task>>

\* A task queued for the lock after a 401 gets it.
InvalidateGranted(t) ==
    /\ task[t].pc = "inval_wait"
    /\ client.lock = t
    /\ Becomes(Track(World, Invalidate(World, t), t))
    /\ UNCHANGED <<args, files, conn, monitor_task>>

\* The token endpoint answers 200 with expires_in.
TokenAnswer(t) ==
    /\ task[t].pc = "acquire"
    /\ \E e \in ExpiresInValues :
           /\ e <= margin_seconds => FaultsLeft
           /\ Becomes(Track(World,
                            TokenGranted([World EXCEPT !.hist.faults =
                                              IF e <= margin_seconds THEN @ + 1 ELSE @],
                                         t, e),
                            t))
    /\ UNCHANGED <<args, files, conn, monitor_task>>

\* The token endpoint answers non-200 (no credential comes of this request, so
\* the callers queued behind it are no longer waiting for one).
TokenRefused(t) ==
    /\ task[t].pc = "acquire"
    /\ FaultsLeft
    /\ Becomes(Track(World,
                     TokenFailed([World EXCEPT
                                     !.hist.faults = @ + 1,
                                     !.hist.tokenFailed = TRUE,
                                     !.task = [u \in DOMAIN @ |->
                                                  IF u = t
                                                  THEN [@[u] EXCEPT !.mark401 = -1,
                                                                    !.stale401 = NoToken,
                                                                    !.hurt = @ \/ phase = "detail"]
                                                  ELSE [@[u] EXCEPT !.behind = FALSE]]],
                                 t, 400, TextOf(400)),
                     t))
    /\ UNCHANGED <<args, files, conn, monitor_task>>

\* The API answers the request task t has in flight (or the transport fails).
Answer(t) ==
    /\ task[t].pc = "inflight"
    /\ Len(crawl.folders) < MaxFolders
    /\ \E r \in Answers(t) :
           /\ IsFault(r) => FaultsLeft
           /\ Becomes(Track(World, OnResponse(Noted(World, t, r), t, r), t))
    /\ UNCHANGED <<args, files, conn, monitor_task>>

\* asyncio.sleep is over: attempt += 1 and the loop continues.
Wake(t) ==
    /\ task[t].pc = "sleep"
    /\ task[t].wakeAt = 0
    /\ Becomes(Track(World,
                     BeginAttempt([World EXCEPT !.task[t].attempt = @ + 1], t), t))
    /\ UNCHANGED <<args, files, conn, monitor_task>>

\* Time passes, up to the next instant something is due: the end of a sleep,
\* or the credential coming within the refresh margin (an adverse event).
Max(a, b) == IF a >= b THEN a ELSE b
Elapse(x, d) == Max(x - d, 0)

SleepDeadlines == {task[t].wakeAt : t \in {u \in Tasks : task[u].pc = "sleep"}}
TokenDeadline ==
    IF client.token # NoToken /\ FaultsLeft
    THEN {client.token_expiry - Ticks(margin_seconds)} ELSE {}

Tick ==
    /\ phase \in {"crawl", "detail"}
    /\ \E d \in SleepDeadlines \cup TokenDeadline :
          /\ d > 0
          /\ client' = [client EXCEPT !.token_expiry = Elapse(@, d)]
          /\ task' = [t \in Tasks |->
                         [task[t] EXCEPT !.wakeAt = Elapse(@, d),
                                         !.dueAt = Elapse(@, d),
                                         !.behind = @ /\ d \in SleepDeadlines]]
          /\ hist' = [hist EXCEPT !.faults =
                         IF d \in SleepDeadlines THEN @ ELSE @ + 1]
    /\ UNCHANGED <<args, files, conn, sem, results, LIVE_QUEUE, phase, monitor_task, crawl>>

\* asyncio.gather(*tasks) returns once every task has finished; the detail
\* function returns `results`.
GatherReturn ==
    /\ phase = "detail"
    /\ \A t \in Tasks : task[t].pc = "done"
    /\ phase' = "returned"
    /\ UNCHANGED <<args, files, conn, client, task, sem, results, LIVE_QUEUE,
                   monitor_task, crawl, hist>>

Next ==
    \/ \E t \in Tasks : TaskStart(t)
    \/ \E t \in Tasks : EnsureGranted(t)
    \/ \E t \in Tasks : InvalidateGranted(t)
    \/ \E t \in Tasks : TokenAnswer(t)
    \/ \E t \in Tasks : TokenRefused(t)
    \/ \E t \in Tasks : Answer(t)
    \/ \E t \in Tasks : Wake(t)
    \/ Tick
    \/ GatherReturn

Spec == Init /\ [][Next]_vars

\* The detail phase under the event loop's scheduling with a server that
\* answers every request: a step that can be taken is eventually taken.
DetailLiveInit == Init

DetailLive ==
    /\ DetailLiveInit
    /\ [][Next]_vars
    /\ WF_vars(Next)

\* The traversal is the only task running: the lock is never contended.
CrawlNext ==
    \/ CrawlStart
    \/ TokenAnswer(Main)
    \/ TokenRefused(Main)
    \/ Answer(Main)
    \/ Wake(Main)
    \/ Tick

CrawlSpec == CrawlInit /\ [][CrawlNext]_vars

\* The simple scanner after acquire_token, about to call list_all_items.
SimpleInit ==
    /\ args \in [use_batch : {FALSE}, batch_size : {1}, concurrency : {1},
                 fail_on_throttle : {FALSE}, no_per_item_get : {FALSE},
                 site_id : {FALSE}, page_size : {1, 2}]
    /\ files = <<>>
    /\ client = [NewClient EXCEPT !.token = 1, !.token_expiry = Ticks(default_expires_in)]
    /\ task = [t \in {Main} |-> NewTask]
    /\ sem = 0
    /\ results = <<>>
    /\ conn = NoTable
    /\ Progress(FALSE)
    /\ phase = "simple"
    /\ \E tree \in Hierarchies \cup CyclicHierarchies :
           crawl = [NoCrawl EXCEPT !.tree = tree]
    /\ hist = [NoHistory EXCEPT !.tokenReqs = 1]

\* list_all_items sends its first request (the root's children).
SimpleStart ==
    /\ phase = "simple"
    /\ task[Main].pc = "start"
    /\ Becomes(SimpleListPage(World, Root, 0, <<>>))
    /\ UNCHANGED <<args, files, conn, monitor_task>>

\* requests.get returns (or raises).
SimpleAnswer ==
    /\ task[Main].pc = "simple_get"
    /\ Len(crawl.folders) < MaxFolders
    /\ \E r \in Answers(Main) :
           Becomes(SimpleAfterGet(
               [World EXCEPT !.task[Main].answers = @ + 1,
                             !.hist.novalue = @ \/ r.body.kind \in {"novalue", "nullvalue"},
                             !.hist.pages = IF r.body.kind = "page" THEN @ + 1 ELSE @,
                             !.hist.fatal = r.status # 200],
               r))
    /\ UNCHANGED <<args, files, conn, monitor_task>>

SimpleNext == SimpleStart \/ SimpleAnswer

SimpleSpec == SimpleInit /\ [][SimpleNext]_vars

\* ---- the simple scanner's detail phase (main, after list_all_items)
\* fetch_file_detail up to requests.get: `base` with the hash of the listing's
\* file facet; with a hash the function returns, without one the item is
\* requested and the worker thread waits for the answer.
SimpleFetch(w, t, item) ==
    LET base == [NoDetail EXCEPT !.id = item.id, !.quickXorHash = item.file_hash]
    IN  IF base.quickXorHash # None
        THEN [w EXCEPT !.task[t].result = base, !.task[t].pc = "finished"]
        ELSE [w EXCEPT !.task[t].result = base,
                       !.task[t].pc = "simple_get",
                       !.task[t].req = "item",
                       !.task[t].sends = @ + 1,
                       !.sem = @ - 1]

\* What the per-item GET may return: a transport failure (requests.get
\* raises), a non-200 status, or 200 with the item's file facet and
\* sensitivityLabel, each present or absent.
SimpleItemAnswers ==
    [status : {200}, hash : {None, "item_hash"}, label : BOOLEAN]
    \cup [status : {TransportError, 404, 503}, hash : {None}, label : {FALSE}]

\* fetch_file_detail after requests.get: an exception ends the call; a 200
\* answer fills the hash and the label it carries; any other status leaves
\* `base` as it is. The worker thread is free again.
SimpleAfterItemGet(w, t, r) ==
    LET w1 == [w EXCEPT !.sem = @ + 1, !.task[t].got = r.status,
                        !.task[t].answers = @ + 1]
    IN  IF r.status = TransportError
        THEN [w1 EXCEPT !.task[t].pc = "raised", !.task[t].hurt = TRUE]
        ELSE IF r.status = 200
        THEN [w1 EXCEPT !.task[t].pc = "finished",
                        !.task[t].result.quickXorHash = r.hash,
                        !.task[t].result.sensitivityLabelId =
                            IF r.label THEN "label_id" ELSE None,
                        !.task[t].result.sensitivityLabelName =
                            IF r.label THEN "label_name" ELSE None]
        ELSE [w1 EXCEPT !.task[t].pc = "finished"]

\* A variant of main's loop in which a failed future ends the run.
SimpleResultAborts(w, t) ==
    IF w.task[t].pc = "raised"
    THEN [w EXCEPT !.task[t].pc = "done", !.phase = "failed"]
    ELSE [w EXCEPT !.task[t].pc = "done",
                   !.results = AppendResult(@, w.task[t].result)]

\* One pass of main's loop over as_completed: fut.result() is appended, an
\* exception is logged and the item left out.
SimpleResult(w, t) ==
    IF w.task[t].pc = "raised"
    THEN [w EXCEPT !.task[t].pc = "done"]
    ELSE [w EXCEPT !.task[t].pc = "done",
                   !.results = AppendResult(@, w.task[t].result)]

\* The leaves list_all_items may have returned: MaxFiles leaves, each with
\* or without a hash in its listing entry.
SimpleLeafLists ==
    {[i \in 1..MaxFiles |-> Leaf(i, h[i])] :
        h \in [1..MaxFiles -> {None, "listing_hash"}]}

\* main with the executor created and every leaf submitted.
SimpleDetailInit ==
    /\ args \in [use_batch : {FALSE}, batch_size : {1}, concurrency : {1, 2},
                 fail_on_throttle : {FALSE}, no_per_item_get : {FALSE},
                 site_id : {FALSE}, page_size : {1}]
    /\ files \in SimpleLeafLists
    /\ client = [NewClient EXCEPT !.token = 1, !.token_expiry = Ticks(default_expires_in)]
    /\ task = [t \in 1..Len(files) |-> NewTask]
    /\ sem = args.concurrency
    /\ results = <<>>
    /\ conn = NoTable
    /\ Progress(FALSE)
    /\ phase = "simple_detail"
    /\ crawl = NoCrawl
    /\ hist = [NoHistory EXCEPT !.tokenReqs = 1]

\* A free worker thread takes the next submitted item (in submission order).
SimpleWorkerStart(t) ==
    /\ phase = "simple_detail"
    /\ task[t].pc = "start"
    /\ sem > 0
    /\ \A u \in Tasks : u < t => task[u].pc # "start"
    /\ Becomes(SimpleFetch(World, t, files[t]))
    /\ UNCHANGED <<args, files, conn, monitor_task>>

\* requests.get of worker t returns or raises.
SimpleItemAnswer(t) ==
    /\ phase = "simple_detail"
    /\ task[t].pc = "simple_get"
    /\ \E r \in SimpleItemAnswers : Becomes(SimpleAfterItemGet(World, t, r))
    /\ UNCHANGED <<args, files, conn, monitor_task>>

\* as_completed yields a future that is done.
SimpleCompleted(t) ==
    /\ phase = "simple_detail"
    /\ task[t].pc \in {"finished", "raised"}
    /\ Becomes(SimpleResult(World, t))
    /\ UNCHANGED <<args, files, conn, monitor_task>>

\* The loop is over: save_json(details, args.output).
SimpleSave ==
    /\ phase = "simple_detail"
    /\ \A t \in Tasks : task[t].pc = "done"
    /\ phase' = "saved"
    /\ UNCHANGED <<args, files, conn, client, task, sem, results, LIVE_QUEUE,
                   monitor_task, crawl, hist>>

SimpleDetailNext ==
    \/ \E t \in Tasks : SimpleWorkerStart(t)
    \/ \E t \in Tasks : SimpleItemAnswer(t)
    \/ \E t \in Tasks : SimpleCompleted(t)
    \/ SimpleSave

SimpleDetailSpec == SimpleDetailInit /\ [][SimpleDetailNext]_vars

\* ------------------------------------------------------------- FileImportDB
\* scanner.py of FileImportDB: insert_batch on the SQLite table files. A row
\* of a batch is (path, meta); process_path returns the metadata of the file or
\* {'error': True}. The metadata columns are stood for by `size`.
Paths == {"a", "b", "c"}
ErrorMeta == [error |-> TRUE, size |-> 0]
\* No metadata given (yet) for a path.
NoMeta == [error |-> FALSE, size |-> 0]
Metas == {[error |-> FALSE, size |-> 1], [error |-> FALSE, size |-> 2]}
BatchRows == [path : Paths, meta : Metas \cup {ErrorMeta}]
Batches == UNION {[1..n -> BatchRows] : n \in 0..MaxRows}

\* A variant of the statement with ON CONFLICT(path) DO NOTHING.
UpsertKeepsOld(table, row) ==
    IF \E i \in 1..Len(table) : table[i].path = row.path
    THEN table
    ELSE Append(table, row)

\* INSERT INTO files ... ON CONFLICT(path) DO UPDATE SET <every column> =
\* excluded.<column>: the row of that path takes the new metadata, a new path
\* gets a new row.
Upsert(table, row) ==
    IF \E i \in 1..Len(table) : table[i].path = row.path
    THEN [i \in 1..Len(table) |->
             IF table[i].path = row.path THEN [table[i] EXCEPT !.meta = row.meta]
             ELSE table[i]]
    ELSE Append(table, row)

\* cur.executemany(statement, to_upsert): the statement once per row, in order.
RECURSIVE executemany(_, _)
executemany(table, rows) ==
    IF rows = <<>> THEN table
    ELSE executemany(Upsert(table, Head(rows)), Tail(rows))

\* insert_batch(conn, rows): rows with meta.get('error') are left out; nothing
\* is executed when none remains; else BEGIN, executemany, commit.
insert_batch(table, rows) ==
    LET to_upsert == SelectSeq(rows, LAMBDA r : ~r.meta.error)
    IN  IF to_upsert = <<>> THEN table ELSE executemany(table, to_upsert)

\* What the calls made so far say about path p after the batch `rows`: the
\* metadata of the last row of the batch given for p without error, else what
\* was said before.
LastGiven(before, rows, p) ==
    LET good == {i \in 1..Len(rows) : rows[i].path = p /\ ~rows[i].meta.error}
    IN  IF good = {} THEN before
        ELSE rows[CHOOSE i \in good : \A j \in good : j <= i].meta

\* main after init_db: the table is empty, no batch inserted yet.
InsertInit ==
    /\ args = [batch_size |-> MaxRows]
    /\ files = <<>>
    /\ client = NewClient
    /\ task = <<>>
    /\ sem = 0
    /\ results = <<>>
    /\ Progress(FALSE)
    /\ phase = "import"
    /\ crawl = NoCrawl
    /\ hist = [calls |-> 0, last |-> [p \in Paths |-> NoMeta],
               replaced |-> FALSE, skipped |-> FALSE]
    /\ conn = NoTable

\* One call insert_func(conn, batch) of main's loop.
InsertBatch ==
    /\ phase = "import"
    /\ hist.calls < MaxCalls
    /\ \E rows \in Batches :
           /\ conn' = insert_batch(conn, rows)
           /\ hist' = [calls |-> hist.calls + 1,
                       last |-> [p \in Paths |-> LastGiven(hist.last[p], rows, p)],
                       replaced |-> \/ hist.replaced
                                    \/ \E p \in Paths :
                                           /\ hist.last[p] # NoMeta
                                           /\ LastGiven(hist.last[p], rows, p) # hist.last[p],
                       skipped |-> \/ hist.skipped
                                   \/ \E i \in 1..Len(rows) : rows[i].meta.error]
    /\ UNCHANGED <<args, files, client, task, sem, results, LIVE_QUEUE, phase,
                   monitor_task, crawl>>

InsertNext == InsertBatch

InsertSpec == InsertInit /\ [][InsertNext]_vars

\* ------------------------------------------------------------- live monitor
\* One pass of live_display_loop's body with the event ev it got from the
\* queue: 'stop' ends the loop, the other events update the counters.
Display(m, ev) ==
    CASE ev.type = "stop" -> [m EXCEPT !.pc = "done"]
      [] ev.type = "set_initial" -> [m EXCEPT !.folders = ev.n, !.files = ev.m]
      [] ev.type = "add_folders" -> [m EXCEPT !.folders = @ + ev.n]
      [] ev.type = "add_files" -> [m EXCEPT !.files = @ + ev.n]
      [] ev.type = "add_details" -> [m EXCEPT !.details = @ + ev.n]
      [] OTHER -> m

\* queue.get() returns the oldest event not yet taken (a pass that times out
\* without an event changes nothing).
MonitorStep ==
    /\ monitor_task.pc = "run"
    /\ monitor_task.taken < Len(LIVE_QUEUE.events)
    /\ monitor_task' = Display([monitor_task EXCEPT !.taken = @ + 1],
                               LIVE_QUEUE.events[monitor_task.taken + 1])
    /\ UNCHANGED <<args, files, conn, client, task, sem, results, LIVE_QUEUE, phase,
                   crawl, hist>>

\* main_async after the detail phase: with a monitor, put 'stop' and await the
\* monitor task; without one, only set_live_queue(None).
StopMonitor ==
    /\ phase = "returned"
    /\ IF monitor_task.pc # "none" /\ LIVE_QUEUE.attached
       THEN /\ LIVE_QUEUE' = [LIVE_QUEUE EXCEPT
                                 !.events = Append(@, [type |-> "stop", n |-> 0, m |-> 0])]
            /\ phase' = "stopping"
       ELSE /\ LIVE_QUEUE' = [LIVE_QUEUE EXCEPT !.attached = FALSE]
            /\ phase' = "complete"
    /\ UNCHANGED <<args, files, conn, client, task, sem, results, monitor_task, crawl, hist>>

\* A variant in which main_async does not await the monitor task.
MonitorNotAwaited ==
    /\ phase = "stopping"
    /\ LIVE_QUEUE' = [LIVE_QUEUE EXCEPT !.attached = FALSE]
    /\ phase' = "complete"
    /\ UNCHANGED <<args, files, conn, client, task, sem, results, monitor_task, crawl, hist>>

\* await monitor_task returns once live_display_loop has ended; then
\* set_live_queue(None).
MonitorJoined ==
    /\ phase = "stopping"
    /\ monitor_task.pc = "done"
    /\ LIVE_QUEUE' = [LIVE_QUEUE EXCEPT !.attached = FALSE]
    /\ phase' = "complete"
    /\ UNCHANGED <<args, files, conn, client, task, sem, results, monitor_task, crawl, hist>>

\* The runs followed with their monitor: per-item and batch mode on one slot,
\* and the traversal listed in pages of two, each with progress on and off.
MonitorRuns ==
    {r \in DetailRuns : r.concurrency = 1 /\ ~r.fail_on_throttle /\ ~r.no_per_item_get}

MonitorInit ==
    \E on \in BOOLEAN :
        /\ Progress(on)
        /\ \/ DetailBegin /\ args \in MonitorRuns
           \/ CrawlBegin /\ args.page_size = 2 /\ ~args.fail_on_throttle

\* One task runs at a time (one slot, or the traversal alone): the lock is
\* never contended.
MonitorNext ==
    \/ CrawlStart
    \/ \E t \in Tasks : TaskStart(t)
    \/ \E t \in Tasks : TokenAnswer(t)
    \/ \E t \in Tasks : TokenRefused(t)
    \/ \E t \in Tasks : Answer(t)
    \/ \E t \in Tasks : Wake(t)
    \/ Tick
    \/ GatherReturn
    \/ MonitorStep
    \/ StopMonitor
    \/ MonitorJoined

MonitorSpec == MonitorInit /\ [][MonitorNext]_vars

\* The traversal of a listing that holds a cycle.
CycleInit ==
    /\ args \in [use_batch : {FALSE}, batch_size : {1}, concurrency : {1},
                 fail_on_throttle : {FALSE}, no_per_item_get : {FALSE},
                 site_id : {FALSE}, page_size : {1, 2}]
    /\ files = <<>>
    /\ client = NewClient
    /\ task = [t \in {Main} |-> NewTask]
    /\ sem = 0
    /\ results = <<>>
    /\ conn = NoTable
    /\ Progress(TRUE)
    /\ phase = "crawl"
    /\ \E tree \in CyclicHierarchies : crawl = [NoCrawl EXCEPT !.tree = tree]
    /\ hist = NoHistory

CycleSpec == CycleInit /\ [][CrawlNext]_vars

\* The traversal under the event loop's scheduling: a step that can be taken
\* (an answer arriving, a sleep ending, time passing) is eventually taken.
\* Every request of a traversal runs the same loop, so one hierarchy (the
\* root with three children, listed in pages of two) is followed.
CrawlLiveInit == CrawlInit /\ args.page_size = 2 /\ Len(crawl.tree[Root]) = 3

CrawlLive ==
    /\ CrawlLiveInit
    /\ [][CrawlNext]_vars
    /\ WF_vars(CrawlNext)

\* ------------------------------------------------------------- properties
InFlight == {t \in Tasks : task[t].pc = "inflight"}
Occurrences(id) == Cardinality({j \in 1..Len(results) : results[j].id = id})

\* Task t sends a request in this step: ensure_token has just returned to it.
Sent(t) ==
    /\ task'[t].pc = "inflight"
    /\ \/ task[t].pc # "inflight"
       \/ task'[t].req # task[t].req
       \/ task'[t].result # task[t].result
       \/ crawl' # crawl

\* C1: when the detail phase returns, in per-item and in batch mode and whatever
\* requests failed, its output holds exactly one Detail for each input leaf.
C1_OneDetailPerLeaf ==
    phase = "returned" =>
        /\ Len(results) = Len(files)
        /\ \A i \in 1..Len(files) : Occurrences(files[i].id) = 1

\* C1 witness: a batch run has returned after a group failed and was fetched
\* member by member, with a refused token request on the way.
C1_Witness ==
    /\ phase = "returned"
    /\ hist.tokenFailed
    /\ \E t \in Tasks : task[t].fallback

\* C2: never more than `concurrency` enrichment requests in flight; the slots
\* held stay between 0 and `concurrency` and are all free when the phase ends.
C2_GateBound ==
    phase \in {"detail", "returned"} =>
        /\ Cardinality(InFlight) <= args.concurrency
        /\ 0 <= sem /\ sem <= args.concurrency
        /\ phase = "returned" => sem = args.concurrency

\* C2 witness: the gate is binding (a task waits for a slot while all allowed
\* requests are in flight) during the member-by-member fetch of a failed group.
C2_Witness ==
    /\ Cardinality(InFlight) = args.concurrency
    /\ \E t \in Tasks : task[t].pc = "start"
    /\ \E t \in InFlight : task[t].fallback

\* C3: callers that queue in ensure_token behind a token request in flight
\* reuse the refreshed credential (they issue no token request of their own),
\* and never are two token requests in flight.
C3_OneTokenRequestPerWave ==
    [][/\ Cardinality({t \in Tasks : task'[t].pc = "acquire"}) <= 1
       /\ \A t \in Tasks :
              (task[t].pc = "ensure_wait" /\ task[t].behind) => task'[t].pc # "acquire"]_vars

\* C4: the 401 answers to requests sent with one credential force at most one
\* token request: no credential is listed twice among the forced refreshes.
C4_OneForcedRefreshPerCredential ==
    \A i, j \in 1..Len(hist.forced) : i # j => hist.forced[i] # hist.forced[j]

\* C5: a request sent again after a 401 carries a credential, and that
\* credential comes from a token request issued after the 401 arrived (token
\* ids number the token requests), so the credential cached at the 401 is
\* not used again whatever its expiry.
C5_ResendCarriesFreshToken ==
    \A t \in Tasks :
        (task[t].pc = "inflight" /\ task[t].mark401 >= 0) =>
            /\ task[t].carried # NoToken
            /\ task[t].carried > task[t].mark401

\* C5 witness: a request answered 401 has been sent again.
C5_Witness ==
    \E t \in Tasks : task[t].pc = "inflight" /\ task[t].mark401 >= 0

\* C6: whenever ensure_token returns (the request is then sent), the cached
\* credential expires more than 60 seconds later.
C6_ValidBeyondMargin ==
    [][\A t \in Tasks : Sent(t) => client'.token_expiry > Ticks(margin_seconds)]_vars

\* C7: a refused token request aborts the run: the detail phase does not
\* return normally after one.
C7_TokenFailureAborts == hist.tokenFailed => phase # "returned"

\* C8: a request answered 429/5xx with a numeric Retry-After (fail-fast off,
\* attempts left) is not sent again before that many seconds have passed, and
\* each retried answer is followed by exactly one more send.
C8_RetryAfterHonoured ==
    \A t \in Tasks :
        task[t].pc = "inflight" =>
            /\ task[t].dueAt = 0
            /\ task[t].sends = task[t].answers + 1

\* C8 witness: the request answered 429/5xx with Retry-After: 2 has been sent
\* again, as its first retry.
C8_Witness ==
    \E t \in Tasks :
        /\ task[t].pc = "inflight"
        /\ task[t].lastRA = 2
        /\ task[t].sends = 2

\* C9: with fail_on_throttle, a 429/5xx answer ends the request at once with an
\* error carrying the answer's text (no sleep, no further send), and the
\* traversal fails without returning folders or files.
C9_FailFast ==
    (args.fail_on_throttle /\ hist.lastThrottle # None) =>
        /\ phase = "failed"
        /\ \A t \in Tasks : task[t].pc = "failed" /\ task[t].sends = task[t].answers
        /\ crawl.error.type = "RuntimeError"
        /\ crawl.error.status \in ThrottleStatuses
        /\ crawl.error.text = hist.lastThrottle
        /\ ~crawl.returned

\* C9 witness: the traversal failed fast on a 429/5xx after it had already
\* collected folders.
C9_Witness ==
    /\ args.fail_on_throttle
    /\ hist.lastThrottle # None
    /\ phase = "failed"
    /\ Len(crawl.folders) > 0

\* C10: a request is sent at most max_retries + 1 times (so at most max_retries
\* forced refreshes), a 429/5xx that ends it raises an error with the last
\* answer's text, and every call ends: the traversal, a sequence of calls,
\* always reaches its return or its failure.
C10_BudgetInv ==
    /\ \A t \in Tasks : task[t].sends <= max_retries + 1 /\ task[t].attempt <= max_retries
    /\ (phase = "failed" /\ crawl.error.status \in ThrottleStatuses) =>
           crawl.error.text = hist.lastThrottle

C10_RequestTerminates ==
    /\ []C10_BudgetInv
    /\ <>(phase \in {"crawled", "failed"})

\* C10 witness: a request has failed on a 429/5xx after max_retries + 1 sends
\* that met a 401 as well, with fail_on_throttle off.
C10_Witness ==
    /\ ~args.fail_on_throttle
    /\ phase = "failed"
    /\ crawl.error.status \in ThrottleStatuses
    /\ hist.tokenReqs >= 2
    /\ \A t \in Tasks : task[t].sends = max_retries + 1

\* The traversal has failed because a request answered 429/5xx ran out of
\* retries (fail_on_throttle off).
ThrottleExhausted ==
    /\ phase = "failed"
    /\ ~args.fail_on_throttle
    /\ crawl.error.status \in ThrottleStatuses

\* C11: retries caused by 401 do not use up the throttle budget: a request
\* whose retries were caused by 401 and 429/5xx answers only fails on a
\* 429/5xx no earlier than after max_retries retries caused by 429/5xx.
C11_ThrottleBudgetApartFrom401 ==
    (ThrottleExhausted /\ task[Main].nTransport = 0) =>
        task[Main].nThrottle = max_retries

\* C12: transport retries and 429/5xx retries are counted independently: with
\* no 401 among its answers, a request fails on a 429/5xx only after
\* max_retries throttle retries, and on a transport failure only after
\* max_retries transport retries.
C12_TransportBudgetApartFromThrottle ==
    (phase = "failed" /\ ~args.fail_on_throttle /\ task[Main].n401 = 0) =>
        /\ crawl.error.status \in ThrottleStatuses =>
               task[Main].nThrottle = max_retries
        /\ crawl.error.type = "ClientError" =>
               task[Main].nTransport = max_retries

\* Task t goes to sleep after a transport failure or a 429/5xx without a usable
\* Retry-After header.
BackoffSleep(t) ==
    /\ task'[t].pc = "sleep"
    /\ task[t].pc # "sleep"
    /\ task'[t].lastRA \in {NoRetryAfter, BadRetryAfter}

\* C13: the sleep after a transport failure or a 429/5xx without usable
\* Retry-After lasts 1.5^(k+1) seconds, k the number of retries the logical
\* request has already made, and is longer than the request's previous
\* backoff sleep.
C13_ExponentialBackoff ==
    [][\A t \in Tasks :
          BackoffSleep(t) =>
              /\ task'[t].wakeAt * Pow(backoff_den, task[t].answers + 1)
                     = Pow(backoff_num, task[t].answers + 1) * TicksPerSec
              /\ task'[t].wakeAt > task[t].lastBackoff]_vars

\* C13 witness: a request sleeps for its second backoff, the first after a
\* transport failure and this one after a 429/5xx with an unusable Retry-After.
C13_Witness ==
    \E t \in Tasks :
        /\ task[t].pc = "sleep"
        /\ task[t].answers = 2
        /\ task[t].nTransport = 1
        /\ task[t].nThrottle = 1
        /\ task[t].lastRA = BadRetryAfter
        /\ task[t].wakeAt = task[t].lastBackoff
        /\ task[t].wakeAt = Backoff(1)

\* The ids of the nodes below node n of a tree-shaped hierarchy.
RECURSIVE Below(_, _)
Below(tree, n) ==
    IF n \notin DOMAIN tree THEN {}
    ELSE UNION {{tree[n][i].id} \cup Below(tree, tree[n][i].id) : i \in 1..Len(tree[n])}

\* C14: a traversal of a tree-shaped hierarchy whose listings all succeeded
\* returns every node below the root, each in exactly one of the two lists and
\* exactly once.
C14_TraversalComplete ==
    (phase = "crawled" /\ crawl.tree \in Hierarchies /\ ~hist.novalue) =>
        LET all == crawl.folders \o crawl.files
        IN  /\ {all[i].id : i \in 1..Len(all)} = Below(crawl.tree, Root)
            /\ \A i, j \in 1..Len(all) : i # j => all[i].id # all[j].id

\* The container whose listing holds node id, and the place of id in it.
ParentOf(tree, id) ==
    CHOOSE n \in DOMAIN tree : \E i \in 1..Len(tree[n]) : tree[n][i].id = id
PlaceOf(tree, id) ==
    CHOOSE i \in 1..Len(tree[ParentOf(tree, id)]) : tree[ParentOf(tree, id)][i].id = id
\* The discovery rank of a container: 0 for the root, else its place in folders.
RankOf(n) ==
    IF n = Root THEN 0
    ELSE CHOOSE k \in 1..Len(crawl.folders) : crawl.folders[k].id = n
\* The items of `list` are in breadth-first order: by the discovery rank of
\* their container, then by their place in its listing.
BreadthFirst(list) ==
    \A i, j \in 1..Len(list) :
        i < j =>
            LET pi == ParentOf(crawl.tree, list[i].id)
                pj == ParentOf(crawl.tree, list[j].id)
            IN  \/ RankOf(pi) < RankOf(pj)
                \/ pi = pj /\ PlaceOf(crawl.tree, list[i].id) < PlaceOf(crawl.tree, list[j].id)

RepeatedPair ==
    \E j, k \in 1..crawl.idx :
        /\ j < k
        /\ crawl.folders[j].id = crawl.folders[k].id
        /\ Len(crawl.tree[crawl.folders[j].id]) > 0

\* C16: when a (parentId, childId) pair reappears in the listings the traversal
\* has aborted with a structural error.
C16_CycleAborts ==
    RepeatedPair => (phase = "failed" /\ crawl.error.type = "StructuralError")

\* C17: once a listing request has failed terminally (429/5xx without retry
\* left or with fail-fast, another 4xx, transport failures used up, a refused
\* token request) the traversal has raised: nothing is returned and no detail
\* phase runs on the partial enumeration.
C17_TraversalFailureEscalates ==
    /\ (hist.fatal \/ hist.tokenFailed) =>
           /\ phase = "failed"
           /\ crawl.error # NoError
           /\ ~crawl.returned
           /\ \A t \in Tasks : task[t].pc = "failed"
           /\ files = <<>> /\ results = <<>>
    /\ crawl.returned => phase = "crawled" /\ crawl.error = NoError

\* C17 witness: the traversal failed on a transport error, its retries used
\* up, after it had collected folders and files.
C17_Witness ==
    /\ phase = "failed"
    /\ hist.fatal
    /\ crawl.error.type = "ClientError"
    /\ Len(crawl.folders) > 0
    /\ Len(crawl.files) > 0

\* The pages the listing of n children takes: one request even when empty.
PagesFor(n) == IF n = 0 THEN 1 ELSE (n + args.page_size - 1) \div args.page_size
\* The pages of the listings that paged_get has returned so far: the root's
\* once the first loop is over, and those of the folders expanded.
PagesReturned ==
    LET Sum[k \in 0..crawl.idx] ==
            IF k = 0 THEN 0
            ELSE Sum[k - 1] + PagesFor(Len(crawl.tree[crawl.folders[k].id]))
    IN  (IF crawl.stage = "root" THEN 0 ELSE PagesFor(Len(crawl.tree[Root])))
            + Sum[crawl.idx]

\* C18: paged_get follows every continuation link with one page request per
\* page: while a listing runs, the items gathered are the container's children
\* up to the cursor, in order, and the pages answered are those of the
\* listings returned plus those of this listing up to the cursor; when the
\* traversal returns, every listing has taken exactly its pages.
C18_PagedGetFollowsLinks ==
    ~hist.novalue =>
        /\ (phase \in {"crawl", "simple"} /\ task[Main].req = "list") =>
               /\ crawl.acc = SubSeq(crawl.tree[crawl.listing], 1, crawl.offset)
               /\ hist.pages = PagesReturned
                      + (crawl.offset + args.page_size - 1) \div args.page_size
        /\ phase = "crawled" => hist.pages = PagesReturned

\* C18 witness: the root's three children were listed in two pages, the
\* folder's child in a third, and the traversal has returned.
C18_Witness ==
    /\ phase = "crawled"
    /\ ~hist.novalue
    /\ args.page_size = 2
    /\ Len(crawl.tree[Root]) = 3
    /\ hist.pages = 3
    /\ Len(crawl.files) = 3

\* C18, termination: under the event loop's scheduling the traversal of a
\* finite hierarchy ends, returned or raised.
C18_ListingEnds == <>(phase \in {"crawled", "failed"})

\* The enrichment a leaf gets when every request of its fetch is answered:
\* the listing's hash or else the item's, and the label the drive holds.
FullHash(it) ==
    IF it.file_hash # None THEN it.file_hash
    ELSE IF args.no_per_item_get THEN None ELSE "item_hash"
FullLabel(id) ==
    IF HasFacet(id, "listItem1") THEN <<"fields_id", "fields_name">>
    ELSE IF HasFacet(id, "label") THEN <<"label_id", "label_name">>
    ELSE <<None, None>>

\* C19: in per-item mode no failed request leaves fetch_file_detail: nothing
\* raises, every Detail emitted is that of a leaf and carries the listing's
\* values, each enrichment field is the drive's value or null, null only where
\* a request of that same leaf failed, and when all fetches are over there is
\* one Detail per leaf.
C19_PerItemFailureLocal ==
    (~args.use_batch /\ phase # "crawl" /\ files # <<>>) =>
        /\ phase # "failed"
        /\ \A t \in Tasks : task[t].pc # "failed"
        /\ \A i \in 1..Len(results) :
               \E t \in Tasks :
                   /\ files[t].id = results[i].id
                   /\ task[t].pc = "done"
                   /\ results[i].quickXorHash \in
                          {FullHash(files[t])} \cup
                          (IF task[t].hurt THEN {files[t].file_hash} ELSE {})
                   /\ <<results[i].sensitivityLabelId,
                        results[i].sensitivityLabelName>> \in
                          {FullLabel(files[t].id)} \cup
                          (IF task[t].hurt THEN {<<None, None>>} ELSE {})
        /\ (\A t \in Tasks : task[t].pc = "done") => Len(results) = Len(files)

\* C19 witness: both requests of leaf 2 failed and its Detail was emitted with
\* null enrichment, while leaf 1 has its Detail with hash and label.
C19_Witness ==
    /\ ~args.use_batch
    /\ phase = "returned"
    /\ task[2].hurt /\ ~task[1].hurt
    /\ \E i, j \in 1..Len(results) :
           /\ results[i].id = 2
           /\ results[i].quickXorHash = None
           /\ results[i].sensitivityLabelId = None
           /\ results[j].id = 1
           /\ results[j].quickXorHash = "listing_hash"
           /\ results[j].sensitivityLabelId = "fields_id"

\* The Details emitted for the leaf `id` that did not come from a grouped answer.
FetchedAlone(id) ==
    Cardinality({j \in 1..Len(results) :
                    results[j].id = id /\ results[j].quickXorHash # "batch_hash"})

\* C20: in batch mode a group whose grouped request raised is fetched member by
\* member: the members before the one being fetched, and all of them once the
\* group is done, have exactly one Detail each, from their own fetch; the
\* group's task never fails, and a group that was answered has one Detail per
\* member whatever happened to the others.
C20_BatchFallbackKeepsMembers ==
    args.use_batch =>
        /\ phase # "failed"
        /\ \A t \in Tasks :
               LET items == TaskItems(t)
               IN  /\ task[t].pc # "failed"
                   /\ task[t].fallback =>
                          \A k \in 1..Len(items) :
                              IF task[t].pc = "done" \/ k < task[t].pos
                              THEN /\ Occurrences(items[k].id) = 1
                                   /\ FetchedAlone(items[k].id) = 1
                              ELSE Occurrences(items[k].id) = 0
                   /\ (~task[t].fallback /\ task[t].pc = "done") =>
                          \A k \in 1..Len(items) : Occurrences(items[k].id) = 1
        /\ phase = "returned" => Len(results) = Len(files)

\* C20 witness: the grouped request of a group of two raised, and both members
\* are in the output, fetched one after the other.
C20_Witness ==
    /\ args.use_batch
    /\ phase = "returned"
    /\ \E t \in Tasks :
           /\ task[t].fallback
           /\ Len(TaskItems(t)) = 2
           /\ \A k \in 1..2 : FetchedAlone(TaskItems(t)[k].id) = 1

\* A failed group and an answered group side by side, both done.
FailedAndAnsweredGroups ==
    /\ args.use_batch
    /\ phase = "returned"
    /\ \E t, u \in Tasks :
           /\ task[t].fallback /\ ~task[u].fallback
           /\ Occurrences(TaskItems(u)[1].id) = 1

\* The Details emitted for the leaf `id`.
DetailsOf(id) == {results[j] : j \in {k \in 1..Len(results) : results[k].id = id}}

\* C21: in batch mode, once the grouped answer has arrived the group is done
\* without a fallback and without a failure; a member whose sub-response
\* reports a non-2xx status has one Detail with hash and label empty, and a
\* member whose sub-response is 2xx has one Detail with the values of its body.
C21_SubResponseErrorIsLocal ==
    \A t \in Tasks :
        task[t].subs # <<>> =>
            /\ args.use_batch
            /\ task[t].pc = "done" /\ ~task[t].fallback
            /\ phase # "failed"
            /\ \A k \in 1..Len(TaskItems(t)) :
                   LET id == TaskItems(t)[k].id
                   IN  /\ Occurrences(id) = 1
                       /\ task[t].subs[id] = "err" =>
                              DetailsOf(id) = {[NoDetail EXCEPT !.id = id]}
                       /\ task[t].subs[id] = "ok" =>
                              DetailsOf(id) =
                                  {[id |-> id, quickXorHash |-> "batch_hash",
                                    sensitivityLabelId |-> "label_id",
                                    sensitivityLabelName |-> "label_name"]}

\* C21 witness: a group of two was answered with one non-2xx sub-response and
\* one 2xx sub-response.
C21_Witness ==
    \E t \in Tasks :
        /\ task[t].subs # <<>>
        /\ Len(TaskItems(t)) = 2
        /\ task[t].subs[TaskItems(t)[1].id] = "err"
        /\ task[t].subs[TaskItems(t)[2].id] = "ok"
        /\ phase = "returned"

\* The add_details events posted so far.
DetailEvents ==
    {j \in 1..Len(LIVE_QUEUE.events) : LIVE_QUEUE.events[j].type = "add_details"}

\* C22: with a queue attached, every Detail emitted has posted one
\* add_details event of amount 1, so that when the detail phase returns the
\* events posted number the leaves.
C22_OneProgressEventPerLeaf ==
    (LIVE_QUEUE.attached /\ phase \in {"detail", "returned"}) =>
        /\ \A j \in DetailEvents : LIVE_QUEUE.events[j].n = 1
        /\ Cardinality(DetailEvents) = Len(results)
        /\ phase = "returned" => Cardinality(DetailEvents) = Len(files)

\* The total of the amounts n of the events of type ty among the first k posted.
RECURSIVE Posted(_, _)
Posted(ty, k) ==
    IF k = 0 THEN 0
    ELSE Posted(ty, k - 1)
             + (IF LIVE_QUEUE.events[k].type = ty THEN LIVE_QUEUE.events[k].n ELSE 0)
\* The initial count of files: the amount m of the set_initial events.
RECURSIVE PostedInitialFiles(_)
PostedInitialFiles(k) ==
    IF k = 0 THEN 0
    ELSE PostedInitialFiles(k - 1)
             + (IF LIVE_QUEUE.events[k].type = "set_initial"
                THEN LIVE_QUEUE.events[k].m ELSE 0)
StopEvents == {j \in 1..Len(LIVE_QUEUE.events) : LIVE_QUEUE.events[j].type = "stop"}

\* C23: the monitor's counters are the totals of the events it has taken, it
\* ends only on taking 'stop', and when the run is complete it has ended
\* having taken every event posted, 'stop' last.
C23_MonitorDrainedBeforeReturn ==
    monitor_task.pc # "none" =>
        LET n == monitor_task.taken
        IN  /\ n <= Len(LIVE_QUEUE.events)
            /\ monitor_task.folders = Posted("set_initial", n) + Posted("add_folders", n)
            /\ monitor_task.files = PostedInitialFiles(n) + Posted("add_files", n)
            /\ monitor_task.details = Posted("add_details", n)
            /\ monitor_task.pc = "done" =>
                   n > 0 /\ LIVE_QUEUE.events[n].type = "stop"
            /\ phase = "complete" =>
                   /\ monitor_task.pc = "done"
                   /\ n = Len(LIVE_QUEUE.events)
                   /\ StopEvents = {n}
                   /\ ~LIVE_QUEUE.attached

\* C23 witness: the run is complete, the monitor had taken both add_details
\* events and then 'stop'.
C23_Witness ==
    /\ phase = "complete"
    /\ monitor_task.pc = "done"
    /\ monitor_task.taken = 3
    /\ monitor_task.details = 2

\* C24: a step that posts events only appends them to the attached queue,
\* whatever the monitor has taken so far, and does not fail in doing so; with
\* no queue attached nothing is queued and the monitor's state is untouched.
C24_PostNeverBlocksOrQueuesUnattached ==
    [][/\ ~LIVE_QUEUE.attached =>
              /\ LIVE_QUEUE' = LIVE_QUEUE
              /\ monitor_task' = monitor_task
       /\ Len(LIVE_QUEUE'.events) >= Len(LIVE_QUEUE.events)
       /\ SubSeq(LIVE_QUEUE'.events, 1, Len(LIVE_QUEUE.events)) = LIVE_QUEUE.events
       /\ LIVE_QUEUE'.events # LIVE_QUEUE.events =>
              /\ LIVE_QUEUE.attached
              /\ phase' # "failed"
              /\ monitor_task' = monitor_task]_vars

\* C24 witness: the detail phase has returned with both events queued while
\* the monitor has taken none of them.
C24_Witness ==
    /\ phase = "returned"
    /\ LIVE_QUEUE.attached
    /\ Len(LIVE_QUEUE.events) = 2
    /\ monitor_task.taken = 0

\* C24 witness without a queue: the detail phase has returned, nothing queued.
C24_UnattachedWitness ==
    /\ phase = "returned"
    /\ ~LIVE_QUEUE.attached
    /\ Len(results) = 2
    /\ LIVE_QUEUE.events = <<>>

\* set_initial is posted before any other event, and no event carries a
\* negative amount.
EventsInOrder ==
    \A j \in 1..Len(LIVE_QUEUE.events) :
        /\ LIVE_QUEUE.events[j].n >= 0
        /\ LIVE_QUEUE.events[j].m >= 0
        /\ LIVE_QUEUE.events[j].type = "set_initial" => j = 1

\* C25: the monitor's counters never decrease: set_initial is posted only
\* before every Add event and every Add event has a non-negative amount.
C25_CountersMonotone ==
    [][/\ monitor_task'.folders >= monitor_task.folders
       /\ monitor_task'.files >= monitor_task.files
       /\ monitor_task'.details >= monitor_task.details
       /\ EventsInOrder']_vars

\* C25 witness: the monitor has taken set_initial(1, 1) and then add_folders
\* and add_files of the first folder's listing.
C25_Witness ==
    /\ monitor_task.taken = 3
    /\ LIVE_QUEUE.events[1].type = "set_initial"
    /\ monitor_task.folders = 2
    /\ monitor_task.files = 2

\* C26: the cached credential changes only in the step that ends a token
\* request of ensure_token (the refresh), which stores the token granted.
C26_CredentialWrittenOnlyByRefresh ==
    [][client'.token # client.token =>
           /\ client.lock # NoTask
           /\ task[client.lock].pc = "acquire"
           /\ client'.token # NoToken]_vars

\* Every write of the credential is made by the task holding the lock: when
\* the lock is held, only a step of its holder changes the token.
CredentialWrittenUnderLock ==
    [][(client'.token # client.token /\ client.lock # NoTask) =>
           task'[client.lock] # task[client.lock]]_vars

\* The ids of the items of a list.
IdsOf(items) == {items[i].id : i \in 1..Len(items)}

\* The groups of the list fs for batch_size `size` are consecutive, of exactly
\* `size` items but for the last, none empty, disjoint, and concatenate to fs.
Partitioned(fs, size) ==
    LET N == NumBatches(fs, size)
        Concat[k \in 0..N] ==
            IF k = 0 THEN <<>> ELSE Concat[k - 1] \o Batch(fs, size, k)
    IN  /\ \A k \in 1..N :
               /\ Len(Batch(fs, size, k)) >= 1
               /\ Len(Batch(fs, size, k)) =
                      IF k < N THEN size ELSE Len(fs) - (N - 1) * size
               /\ \A j \in 1..(k - 1) :
                      IdsOf(Batch(fs, size, j)) \cap IdsOf(Batch(fs, size, k)) = {}
        /\ Concat[N] = fs
        /\ (fs = <<>>) = (N = 0)

\* C27: batch mode splits any leaf list into consecutive groups of batch_size
\* items (the last possibly smaller, none empty) that are disjoint and
\* concatenate to the list (computed when the tasks are created, for every
\* list length and batch_size up to MaxBatchLen); there is one task per group, and the grouped
\* request of a task holds one sub-request per member of its group, by id.
C27_BatchPartition ==
    /\ (\A t \in Tasks : task[t].pc = "start") =>
           \A n \in 0..MaxBatchLen : \A size \in 1..MaxBatchLen :
               Partitioned([i \in 1..n |-> Leaf(i, ListingHash(i))], size)
    /\ (args.use_batch /\ phase \in {"detail", "returned"}) =>
           /\ Partitioned(files, args.batch_size)
           /\ Tasks = 1..NumBatches(files, args.batch_size)
           /\ \A t \in Tasks :
                  /\ task[t].req = "batch" =>
                         /\ ~task[t].fallback
                         /\ \A b \in Bodies(t) :
                                DOMAIN b.responses =
                                    IdsOf(Batch(files, args.batch_size, t))
                         /\ Cardinality(IdsOf(Batch(files, args.batch_size, t)))
                                = Len(Batch(files, args.batch_size, t))
                  /\ task[t].subs # <<>> =>
                         DOMAIN task[t].subs = IdsOf(Batch(files, args.batch_size, t))

\* C27 witness: the grouped request of a group of two leaves is in flight.
C27_Witness ==
    /\ args.use_batch
    /\ args.batch_size = 2
    /\ task[1].pc = "inflight"
    /\ task[1].req = "batch"
    /\ IdsOf(TaskItems(1)) = {1, 2}

\* C28: in per-item mode a leaf's fetch sends one enrichment request (resends
\* of the same request apart), and a task with a request under way holds a
\* slot of the gate.
C28_OneRequestPerLeaf ==
    (~args.use_batch /\ phase \in {"detail", "returned"}) =>
        /\ \A t \in Tasks :
               /\ Cardinality(task[t].asked) <= 1
               /\ task[t].pc = "done" => Cardinality(task[t].asked) = 1
        /\ sem = args.concurrency
                 - Cardinality({t \in Tasks : task[t].pc \notin {"start", "done"}})

\* The gate part of C28 alone: the tasks with a request under way are those
\* holding a slot.
RequestsUnderGate ==
    (~args.use_batch /\ phase \in {"detail", "returned"}) =>
        sem = args.concurrency
                  - Cardinality({t \in Tasks : task[t].pc \notin {"start", "done"}})

\* C29: in per-item mode a leaf whose listing carries a hash keeps that value
\* in its Detail and no hash request is sent for it; a hash request is sent
\* only when the listing has no hash and per-item GETs are not disabled, and
\* then it is sent for every leaf none of whose requests raised.
C29_ListingHashKept ==
    (~args.use_batch /\ phase \in {"detail", "returned"}) =>
        \A t \in Tasks :
            LET it == files[t]
            IN  /\ it.file_hash # None =>
                       /\ "hash" \notin task[t].asked
                       /\ task[t].pc \notin {"start", "done"} =>
                              task[t].result.quickXorHash = it.file_hash
                       /\ \A r \in DetailsOf(it.id) : r.quickXorHash = it.file_hash
                /\ "hash" \in task[t].asked =>
                       it.file_hash = None /\ ~args.no_per_item_get
                /\ (task[t].pc = "done" /\ ~task[t].hurt
                       /\ it.file_hash = None /\ ~args.no_per_item_get) =>
                       /\ "hash" \in task[t].asked
                       /\ \A r \in DetailsOf(it.id) : r.quickXorHash = "item_hash"
                /\ (args.no_per_item_get /\ it.file_hash = None) =>
                       \A r \in DetailsOf(it.id) : r.quickXorHash = None

\* C29 witness: leaf 1 has its Detail with the listing's hash and no hash
\* request was sent for it, while one was sent for leaf 2.
C29_Witness ==
    /\ ~args.use_batch
    /\ phase = "returned"
    /\ "hash" \notin task[1].asked
    /\ "hash" \in task[2].asked
    /\ \E r \in DetailsOf(1) : r.quickXorHash = "listing_hash"
    /\ \E r \in DetailsOf(2) : r.quickXorHash = "item_hash"

\* C30: whenever a task sends a request, its ensure_token call of this attempt
\* is over (it neither holds nor waits for the lock, and this is the one send
\* of the attempt) and the request carries the token cached at that moment,
\* which is present.
C30_SendAfterEnsureToken ==
    [][\A t \in Tasks :
           Sent(t) =>
               /\ task'[t].carried # NoToken
               /\ task'[t].carried = client'.token
               /\ client'.lock # t
               /\ \A i \in 1..Len(client'.waiters) : client'.waiters[i] # t
               /\ task'[t].sends = task'[t].attempt + 1]_vars

\* C30 witness: a task's first attempt is in flight with a credential obtained
\* after another task's 401 had the cached one dropped.
C30_Witness ==
    /\ hist.forced # <<>>
    /\ \E t \in Tasks :
           /\ task[t].pc = "inflight"
           /\ task[t].attempt = 0
           /\ task[t].answers = 0
           /\ task[t].carried > 1
           /\ \E u \in Tasks : u # t /\ task[u].attempt > 0

\* C31: a token request is issued exactly by a task that holds the lock in
\* ensure_token while no credential is cached or the cached one has 60
\* seconds or less left; a task that leaves ensure_token without a token
\* request found a credential with more than 60 seconds left and sends with
\* token and expiry as they were.
C31_RefreshIffDue ==
    [][LET due == \/ client'.token = NoToken
                  \/ client'.token_expiry <= Ticks(margin_seconds)
       IN  /\ hist'.tokenReqs # hist.tokenReqs =>
                  /\ hist'.tokenReqs = hist.tokenReqs + 1
                  /\ due
                  /\ client'.lock # NoTask
                  /\ task'[client'.lock].pc = "acquire"
                  /\ client'.token \in {NoToken, client.token}
           /\ \A t \in Tasks :
                  /\ (task'[t].pc = "acquire" /\ task[t].pc # "acquire") =>
                         hist'.tokenReqs = hist.tokenReqs + 1
                  /\ (Sent(t) /\ task[t].pc # "acquire") =>
                         /\ ~due
                         /\ hist'.tokenReqs = hist.tokenReqs
                         /\ client'.token = client.token
                         /\ client'.token_expiry = client.token_expiry]_vars

\* C31 witness: a token request is under way for a cached credential with
\* exactly 60 seconds left.
C31_Witness ==
    /\ client.token # NoToken
    /\ client.token_expiry = Ticks(margin_seconds)
    /\ client.lock # NoTask
    /\ task[client.lock].pc = "acquire"

\* C31 witness of the other branch: a request is in flight with the credential
\* the run started with, no token request made.
C31_NoRefreshWitness ==
    /\ hist.tokenReqs = 1
    /\ client.token = 1
    /\ client.token_expiry > Ticks(margin_seconds)
    /\ \E t \in Tasks : task[t].pc = "inflight" /\ task[t].carried = 1

\* The enrichment (hash, label id, label name) a member gets from its own
\* sub-response: the body's values when it is 2xx, nothing otherwise.
OwnEnrichment(sub) ==
    IF sub = "ok" THEN <<"batch_hash", "label_id", "label_name">>
    ELSE <<None, None, None>>

\* C32: in batch mode every member of an answered group has exactly one
\* Detail, whose enrichment is determined by the sub-response carrying the
\* member's own id, whatever the other sub-responses are; a member without a
\* sub-response has its one Detail with empty enrichment.
C32_DemuxById ==
    \A t \in Tasks :
        task[t].subs # <<>> =>
            \A k \in 1..Len(TaskItems(t)) :
                LET id == TaskItems(t)[k].id
                IN  /\ id \in DOMAIN task[t].subs
                    /\ Occurrences(id) = 1
                    /\ \A r \in DetailsOf(id) :
                           <<r.quickXorHash, r.sensitivityLabelId,
                             r.sensitivityLabelName>> = OwnEnrichment(task[t].subs[id])

\* C32 witness: in a group of two the first member has no sub-response and
\* the second a 2xx one; both have their Detail.
C32_Witness ==
    \E t \in Tasks :
        /\ task[t].subs # <<>>
        /\ Len(TaskItems(t)) = 2
        /\ task[t].subs[TaskItems(t)[1].id] = "missing"
        /\ task[t].subs[TaskItems(t)[2].id] = "ok"
        /\ DetailsOf(TaskItems(t)[1].id) = {[NoDetail EXCEPT !.id = TaskItems(t)[1].id]}
        /\ \E r \in DetailsOf(TaskItems(t)[2].id) : r.quickXorHash = "batch_hash"

\* C33: the detail phase always finishes, and it has returned only when
\* every worker is done, all slots of the gate free and the lock free with
\* nobody waiting for it.
C33_DetailPhaseFinishes ==
    /\ <>(phase = "returned")
    /\ [](phase = "returned" =>
              /\ \A t \in Tasks : task[t].pc = "done"
              /\ sem = args.concurrency
              /\ client.lock = NoTask /\ client.waiters = <<>>)

\* C33 witness: one worker waits for the token lock while the other, holding
\* it, has a token request under way, both holding a slot of the gate.
C33_Witness ==
    /\ args.concurrency = 2
    /\ sem = 0
    /\ \E t, u \in Tasks :
           /\ task[t].pc = "acquire" /\ client.lock = t
           /\ task[u].pc \in {"ensure_wait", "inval_wait"}

\* C33 witness at the gate: with one slot, a worker has not started while the
\* other holds the slot and sleeps before a retry.
C33_GateWitness ==
    /\ args.concurrency = 1
    /\ sem = 0
    /\ \E t, u \in Tasks : task[t].pc = "sleep" /\ task[u].pc = "start"

\* The token request of task t ends in this step without its credential
\* (number hist.tokenReqs) being stored: the request failed.
TokenRequestFails(t) ==
    /\ task[t].pc = "acquire"
    /\ task'[t].pc # "acquire" \/ hist'.tokenReqs = hist.tokenReqs + 1
    /\ client'.token # hist.tokenReqs

\* C34: a failed token request sends nothing for its caller (request raises),
\* leaves token and token_expiry as they were and releases the lock, which
\* passes to the first waiter if there is one; a caller that gets the lock
\* after a failure finds the credential still due and starts a new token
\* request.
C34_FailedTokenRequest ==
    [][\A t \in Tasks :
          /\ TokenRequestFails(t) =>
                 /\ hist'.tokenFailed
                 /\ task'[t].pc # "inflight"
                 /\ task'[t].hurt
                 /\ client'.token = client.token
                 /\ client'.token_expiry = client.token_expiry
                 /\ IF client.waiters # <<>>
                    THEN client'.lock = Head(client.waiters)
                    ELSE \/ client'.lock = NoTask
                         \/ /\ client'.lock = t
                            /\ task'[t].pc = "acquire"
                            /\ hist'.tokenReqs = hist.tokenReqs + 1
          /\ ( /\ hist.tokenFailed
               /\ task[t].pc = "ensure_wait" /\ client.lock = t
               /\ task'[t].pc # "ensure_wait"
               /\ client.token = NoToken \/ client.token_expiry <= Ticks(margin_seconds) ) =>
                 /\ task'[t].pc = "acquire"
                 /\ hist'.tokenReqs = hist.tokenReqs + 1]_vars

\* C34 witness: after a failed token request the credential of the start is
\* still cached, and the caller that waited for the lock has a new token
\* request under way.
C34_Witness ==
    /\ hist.tokenFailed
    /\ client.token = 1
    /\ hist.tokenReqs = 3
    /\ \E t, u \in Tasks :
           /\ t # u
           /\ task[t].hurt
           /\ task[u].pc = "acquire" /\ client.lock = u

\* The traversal's request in flight receives, in this step, a final client
\* error: a 4xx status other than 401 and 429, or a 401 with no attempt left.
ClientErrorArrives(t) ==
    /\ task[t].pc = "inflight"
    /\ task'[t].answers = task[t].answers + 1
    /\ \/ 400 <= hist'.lastStatus /\ hist'.lastStatus <= 499
          /\ hist'.lastStatus \notin {401, 429}
       \/ hist'.lastStatus = 401 /\ task[t].attempt >= max_retries

\* C35: a 4xx answer other than 401 and 429, and a 401 answer with no attempt
\* left, make request raise in the step the answer arrives: nothing is slept,
\* nothing re-sent, the attempt counter, the credential and the lock stay as
\* they were, and no token request is started.
C35_ClientErrorRaises ==
    [][\A t \in Tasks :
          ClientErrorArrives(t) =>
              /\ phase' = "failed"
              /\ task'[t].pc = "failed"
              /\ crawl'.error = [type |-> "RuntimeError", what |-> "Request failed",
                                 status |-> hist'.lastStatus,
                                 text |-> TextOf(hist'.lastStatus)]
              /\ task'[t].sends = task[t].sends
              /\ task'[t].attempt = task[t].attempt
              /\ client' = client
              /\ hist'.tokenReqs = hist.tokenReqs]_vars

\* C35 witness: the traversal failed on a 404 that answered a request retried
\* before, with the credential still cached.
C35_Witness ==
    /\ phase = "failed"
    /\ crawl.error.status = 404
    /\ \E t \in Tasks : task[t].pc = "failed" /\ task[t].attempt >= 1
    /\ client.token # NoToken

\* C35 witness for 401: the traversal failed on a 401 received at the last
\* attempt, the credential that drew it still cached.
C35_Witness401 ==
    /\ phase = "failed"
    /\ crawl.error.status = 401
    /\ \E t \in Tasks : task[t].pc = "failed" /\ task[t].attempt = max_retries
    /\ client.token # NoToken

\* A successful answer that holds no 'value' list arrives in this step, the
\* first of the traversal.
MalformedPageArrives == ~hist.novalue /\ hist'.novalue

\* C36: a successful answer without a 'value' list ends the listing without
\* raising: the items accumulated so far are added to the lists and the
\* traversal goes on to the next folder or returns.
C36_MalformedPageEndsListing ==
    [][MalformedPageArrives =>
          /\ phase' # "failed"
          /\ crawl'.error = NoError
          /\ Len(crawl'.folders) + Len(crawl'.files) =
                 Len(crawl.folders) + Len(crawl.files) + Len(crawl.acc)
          /\ crawl'.returned \/ crawl'.offset = 0]_vars

\* C36, the part that holds: a body with no 'value' member ends the listing
\* with the items accumulated.
C36_NoValueMemberEndsListing ==
    [][(MalformedPageArrives /\ crawl'.error # ExtendNone) =>
          /\ phase' # "failed"
          /\ crawl'.error = NoError
          /\ Len(crawl'.folders) + Len(crawl'.files) =
                 Len(crawl.folders) + Len(crawl.files) + Len(crawl.acc)
          /\ crawl'.returned \/ crawl'.offset = 0]_vars

\* The traversal failed in results.extend on a page whose 'value' is null,
\* received after a first page of the same listing.
C36_NullValueRaises ==
    /\ phase = "failed"
    /\ crawl.error = ExtendNone
    /\ hist.novalue
    /\ crawl.acc # <<>>

\* C37: with a queue attached, when the traversal has returned, the folders
\* conveyed by set_initial and the add_folders events number the folders
\* returned, and the files conveyed by set_initial and the add_files events
\* number the files returned.
C37_EventTotalsMatchLists ==
    (LIVE_QUEUE.attached /\ phase = "crawled") =>
        LET n == Len(LIVE_QUEUE.events)
        IN  /\ Posted("set_initial", n) + Posted("add_folders", n) = Len(crawl.folders)
            /\ PostedInitialFiles(n) + Posted("add_files", n) = Len(crawl.files)

\* C37 witness: the traversal has returned two folders and two files, of
\* which set_initial conveyed one each and Add events the others.
C37_Witness ==
    /\ LIVE_QUEUE.attached /\ phase = "crawled"
    /\ Len(crawl.folders) = 2 /\ Len(crawl.files) = 2
    /\ LIVE_QUEUE.events[1] = [type |-> "set_initial", n |-> 1, m |-> 1]
    /\ Posted("add_folders", Len(LIVE_QUEUE.events)) = 1
    /\ Posted("add_files", Len(LIVE_QUEUE.events)) = 1

\* The Details of the leaf `id` in the simple scanner's output.
SimpleDetailsOf(id) == {j \in 1..Len(results) : results[j].id = id}

\* C38: in the simple scanner the run never aborts in the detail phase; a leaf
\* whose fetch raised is left out of the output and every other leaf fetched
\* is in it once; a leaf whose request was answered with a status other than
\* 200 has a Detail with no hash and no label; the output saved holds no leaf
\* twice.
C38_SimpleDetailFailures ==
    /\ phase \in {"simple_detail", "saved"}
    /\ \A t \in Tasks :
           LET own == SimpleDetailsOf(files[t].id)
           IN  /\ Cardinality(own) <= 1
               /\ task[t].pc # "done" => own = {}
               /\ task[t].pc = "done" =>
                      /\ task[t].hurt <=> task[t].got = TransportError
                      /\ task[t].hurt => own = {}
                      /\ ~task[t].hurt => Cardinality(own) = 1
                      /\ (~task[t].hurt /\ task[t].got \notin {NoStatus, 200}) =>
                             \A j \in own :
                                 results[j] = [NoDetail EXCEPT !.id = files[t].id]
    /\ phase = "saved" =>
           Len(results) = Cardinality({t \in Tasks : ~task[t].hurt})

\* C38 witness: the output is saved with one Detail, empty, of the leaf that
\* was answered 404, while the fetch of the other leaf raised.
C38_Witness ==
    /\ phase = "saved"
    /\ Len(results) = 1
    /\ \E t, u \in Tasks :
           /\ task[t].hurt /\ task[t].got = TransportError
           /\ task[u].got = 404
           /\ results[1] = [NoDetail EXCEPT !.id = files[u].id]

\* Every folder facet of the hierarchy is absent or non-empty.
NoEmptyFacet(tree) ==
    \A n \in DOMAIN tree : \A i \in 1..Len(tree[n]) : tree[n][i].folder # "empty"

\* The async traversal returns CollectAll of its hierarchy when every listing
\* succeeds.
AsyncReturnsCollectAll ==
    (phase = "crawled" /\ crawl.tree \in Hierarchies /\ ~hist.novalue) =>
        /\ crawl.folders = CollectAll(crawl.tree).folders
        /\ crawl.files = CollectAll(crawl.tree).files

\* C39: with every listing succeeding, list_all_items returns the folders and
\* the files collect_folders_and_files returns for the same hierarchy, in the
\* same order, whatever the folder facets of the items.
C39_SimpleSameAsAsync ==
    (phase = "crawled" /\ crawl.tree \in Hierarchies /\ ~hist.novalue) =>
        /\ crawl.folders = CollectAll(crawl.tree).folders
        /\ crawl.files = CollectAll(crawl.tree).files

\* C39, the part that holds: the two agree on hierarchies without an empty
\* folder facet.
C39_SameWithoutEmptyFacet ==
    (/\ phase = "crawled" /\ crawl.tree \in Hierarchies /\ ~hist.novalue
     /\ NoEmptyFacet(crawl.tree)) =>
        /\ crawl.folders = CollectAll(crawl.tree).folders
        /\ crawl.files = CollectAll(crawl.tree).files

\* list_all_items has returned the item with the empty folder facet among the
\* files and no folder at all.
C39_EmptyFacetAmongFiles ==
    /\ phase = "crawled" /\ ~hist.novalue
    /\ crawl.folders = <<>>
    /\ \E i \in 1..Len(crawl.files) : crawl.files[i].folder = "empty"

\* The rows of table files with path p.
RowsOf(p) == {i \in 1..Len(conn) : conn[i].path = p}

\* C40: after any sequence of insert_batch calls the table holds, for each
\* path, no row if no batch row without error was given for it and else one
\* row with the metadata of the last such row; inserting any batch a second
\* time changes nothing, and a batch of error rows changes nothing.
C40_LastGoodRowWins ==
    phase = "import" =>
        /\ \A p \in Paths :
               /\ Cardinality(RowsOf(p)) <= 1
               /\ hist.last[p] = NoMeta => RowsOf(p) = {}
               /\ hist.last[p] # NoMeta =>
                      \E i \in RowsOf(p) : conn[i].meta = hist.last[p]
        /\ \A i \in 1..Len(conn) : ~conn[i].meta.error
        /\ \A rows \in Batches :
               LET once == insert_batch(conn, rows)
               IN  /\ insert_batch(once, rows) = once
                   /\ (\A i \in 1..Len(rows) : rows[i].meta.error) => once = conn

\* C40 witness: after three calls in which a row was given anew with other
\* metadata and an error row was given, the table holds two rows, the one of
\* "a" with the metadata given last.
C40_Witness ==
    /\ phase = "import"
    /\ hist.calls = 3
    /\ hist.replaced /\ hist.skipped
    /\ Len(conn) = 2
    /\ conn[1].path = "a" /\ conn[1].meta.size = 2
    /\ hist.last["c"] = NoMeta

====
